---------------------------- MODULE Spec2Model ----------------------------
(***************************************************************************)
(* Model of the ConoHa VPS v3 Go SDK client core: endpoint resolution      *)
(* (NewClient, fillURLsFromRegion, normalizeExplicitURLs,                  *)
(* updateEndpointsFromCatalog), the authenticator (authenticate) and the   *)
(* request builders that read the client's protected fields.               *)
(*                                                                         *)
(* Go strings are modelled as sequences of tokens.  A token stands for a   *)
(* run of characters that none of the searched patterns ("/", ".", ":",    *)
(* "/v3", "/v2.1", "/v3/", "/AUTH_", ...) can match across a token border, *)
(* so strings.Contains / Index / TrimRight / Split on the token sequence   *)
(* agree with the byte-level functions on the string it spells.            *)
(***************************************************************************)
EXTENDS Integers, Sequences, FiniteSets, TLC

(***************************************************************************)
(* Bounds of the model.                                                    *)
(***************************************************************************)
MaxOpts == 2

MaxCalls == 2

MaxCatalog == 2

MaxTempURLs == 2

MaxURLLen == 4

(***************************************************************************)
(* String helpers (package strings, net/url).                              *)
(***************************************************************************)
EmptyStr == << >>

\* s[i..] starts with p (i is a 1-based position)
MatchAt(s, p, i) ==
  /\ i + Len(p) - 1 <= Len(s)
  /\ \A k \in 1..Len(p) : s[i + k - 1] = p[k]

\* strings.Index: 0-based position of the first occurrence of p in s, or -1
Index(s, p) ==
  LET hits == {i \in 1..(Len(s) + 1) : MatchAt(s, p, i)}
  IN  IF hits = {} THEN -1
      ELSE (CHOOSE i \in hits : \A j \in hits : i <= j) - 1

\* strings.Contains
Contains(s, p) == Index(s, p) >= 0

\* strings.TrimRight(s, "/")
TrimRight(s, c) ==
  LET keep == {n \in 0..Len(s) : \A k \in (n + 1)..Len(s) : s[k] = c}
      n    == CHOOSE m \in keep : \A j \in keep : m <= j
  IN  SubSeq(s, 1, n)

\* strings.Split(s, "."): the parts between the separators
RECURSIVE Split(_, _)
Split(s, sep) ==
  LET idx == Index(s, <<sep>>)
  IN  IF idx < 0 THEN <<s>>
      ELSE <<SubSeq(s, 1, idx)>> \o Split(SubSeq(s, idx + 2, Len(s)), sep)

\* url.Parse(rawURL).Hostname(): the authority after the scheme, up to the
\* first "/", without the port
Hostname(rawURL) ==
  IF Len(rawURL) = 0 \/ rawURL[1] # "https://" THEN EmptyStr
  ELSE LET rest  == SubSeq(rawURL, 2, Len(rawURL))
           slash == Index(rest, <<"/">>)
           auth  == IF slash < 0 THEN rest ELSE SubSeq(rest, 1, slash)
           colon == Index(auth, <<":">>)
       IN  IF colon < 0 THEN auth ELSE SubSeq(auth, 1, colon)

(***************************************************************************)
(* Constants of the client.                                                *)
(***************************************************************************)
DefaultRegion == <<"c3j1">>

Families ==
  {"identity", "compute", "block-storage", "image", "network",
   "load-balancer", "object-store", "dns"}

\* the fixed version path of each service family
VersionPath(f) ==
  CASE f = "identity"      -> <<"/", "v", "3">>
    [] f = "compute"       -> <<"/", "v", "2", ".", "1">>
    [] f = "block-storage" -> <<"/", "v", "3">>
    [] f = "image"         -> <<"/", "v", "2">>
    [] f = "network"       -> <<"/", "v", "2", ".", "0">>
    [] f = "load-balancer" -> <<"/", "v", "2", ".", "0">>
    [] f = "object-store"  -> <<"/", "v", "1">>
    [] f = "dns"           -> <<"/", "v", "1">>

\* the subdomain of each service family in the region pattern
Subdomain(f) ==
  CASE f = "identity"      -> "identity"
    [] f = "compute"       -> "compute"
    [] f = "block-storage" -> "block-storage"
    [] f = "image"         -> "image-service"
    [] f = "network"       -> "networking"
    [] f = "load-balancer" -> "lbaas"
    [] f = "object-store"  -> "object-storage"
    [] f = "dns"           -> "dns-service"

\* fmt.Sprintf("https://{sub}.%s.conoha.io{version}", r)
RegionURL(f, r) ==
  <<"https://", Subdomain(f), ".">> \o r \o <<".", "conoha", ".", "io">>
    \o VersionPath(f)

\* ensureVersionPath looking for the version path at the end of the URL only
ensureVersionPath_SuffixOnly(rawURL, versionPath) ==
  IF /\ Len(versionPath) <= Len(rawURL)
     /\ MatchAt(rawURL, versionPath, Len(rawURL) - Len(versionPath) + 1)
  THEN rawURL
  ELSE rawURL \o versionPath

\* ensureVersionPath
ensureVersionPath(rawURL, versionPath) ==
  IF Contains(rawURL, versionPath) THEN rawURL ELSE rawURL \o versionPath

\* extractRegionFromConoHaURL
extractRegionFromConoHaURL(rawURL) ==
  LET parts == Split(Hostname(rawURL), ".")
      n     == Len(parts)
  IN  IF n >= 4 /\ parts[n - 1] = <<"conoha">> /\ parts[n] = <<"io">>
      THEN parts[2]
      ELSE EmptyStr

(***************************************************************************)
(* Construction: options and NewClient.                                    *)
(***************************************************************************)
\* the zero Client that NewClient starts from
ZeroClient ==
  [Region         |-> DefaultRegion,
   explicitRegion |-> FALSE,
   explicitURLs   |-> {},
   URL            |-> [f \in Families |-> EmptyStr]]

\* WithRegion(region)
WithRegion(c, region) ==
  [c EXCEPT !.Region = region, !.explicitRegion = TRUE]

\* With<Service>URL(url) for the family f
WithServiceURL(c, f, url) ==
  [c EXCEPT !.URL[f] = url, !.explicitURLs = @ \cup {f}]

\* WithEndpoints(ep): every non-empty field is set and marked explicit
WithEndpoints(c, ep) ==
  [c EXCEPT !.URL = [f \in Families |->
                       IF ep[f] # EmptyStr THEN ep[f] ELSE c.URL[f]],
            !.explicitURLs = @ \cup {f \in Families : ep[f] # EmptyStr}]

\* one ClientOption applied to the client under construction
ApplyOption(c, o) ==
  CASE o.kind = "region"    -> WithRegion(c, o.v)
    [] o.kind = "url"       -> WithServiceURL(c, o.f, o.v)
    [] o.kind = "endpoints" -> WithEndpoints(c, o.ep)

\* for _, opt := range opts { opt(c) }
RECURSIVE ApplyOptions(_, _)
ApplyOptions(c, opts) ==
  IF opts = << >> THEN c
  ELSE ApplyOptions(ApplyOption(c, Head(opts)), Tail(opts))

\* the region inference step without the test of explicitRegion
InferRegion_IgnoreExplicit(c) ==
  IF "identity" \in c.explicitURLs
  THEN LET r == extractRegionFromConoHaURL(c.URL["identity"])
       IN  IF r # EmptyStr THEN [c EXCEPT !.Region = r] ELSE c
  ELSE c

\* the region inference step of NewClient
InferRegion(c) ==
  IF ~c.explicitRegion /\ "identity" \in c.explicitURLs
  THEN LET r == extractRegionFromConoHaURL(c.URL["identity"])
       IN  IF r # EmptyStr THEN [c EXCEPT !.Region = r] ELSE c
  ELSE c

\* normalizeExplicitURLs
normalizeExplicitURLs(c) ==
  [c EXCEPT !.URL = [f \in Families |->
     IF f \in c.explicitURLs
     THEN ensureVersionPath(TrimRight(c.URL[f], "/"), VersionPath(f))
     ELSE c.URL[f]]]

\* fillURLsFromRegion with the default region in place of c.Region
fillURLsFromRegion_DefaultRegion(c) ==
  [c EXCEPT !.URL = [f \in Families |->
     IF c.URL[f] = EmptyStr THEN RegionURL(f, DefaultRegion) ELSE c.URL[f]]]

\* fillURLsFromRegion
fillURLsFromRegion(c) ==
  [c EXCEPT !.URL = [f \in Families |->
     IF c.URL[f] = EmptyStr THEN RegionURL(f, c.Region) ELSE c.URL[f]]]

\* NewClient with the region inferred after the fallback URLs are filled in
NewClient_FillBeforeInference(opts) ==
  InferRegion(fillURLsFromRegion(normalizeExplicitURLs(
    ApplyOptions(ZeroClient, opts))))

\* NewClient(opts...)
NewClient(opts) ==
  fillURLsFromRegion(normalizeExplicitURLs(InferRegion(
    ApplyOptions(ZeroClient, opts))))


(***************************************************************************)
(* Service catalog discovery.                                              *)
(***************************************************************************)
\* the switch with a default case that treats the entry as a compute entry
TypeFamily_DefaultCompute(t) ==
  CASE t = "identity"      -> "identity"
    [] t = "block-storage" -> "block-storage"
    [] t = "volumev3"      -> "block-storage"
    [] t = "image"         -> "image"
    [] t = "network"       -> "network"
    [] t = "load-balancer" -> "load-balancer"
    [] t = "object-store"  -> "object-store"
    [] t = "dns"           -> "dns"
    [] OTHER               -> "compute"

\* the service family a catalog entry of type t is assigned to by the
\* switch of updateEndpointsFromCatalog ("" for a type without a case)
TypeFamily(t) ==
  CASE t = "identity"      -> "identity"
    [] t = "compute"       -> "compute"
    [] t = "block-storage" -> "block-storage"
    [] t = "volumev3"      -> "block-storage"
    [] t = "image"         -> "image"
    [] t = "network"       -> "network"
    [] t = "load-balancer" -> "load-balancer"
    [] t = "object-store"  -> "object-store"
    [] t = "dns"           -> "dns"
    [] OTHER               -> ""

\* the inner loop without the region filter
RECURSIVE publicURL_AnyRegion(_, _)
publicURL_AnyRegion(region, eps) ==
  IF eps = << >> THEN EmptyStr
  ELSE LET ep == Head(eps)
       IN  IF ep.Interface # "public" THEN publicURL_AnyRegion(region, Tail(eps))
           ELSE TrimRight(ep.URL, "/")

\* the inner loop: the URL of the first public endpoint of the entry that
\* matches the client's region, trailing slashes removed ("" without one)
RECURSIVE publicURL(_, _)
publicURL(region, eps) ==
  IF eps = << >> THEN EmptyStr
  ELSE LET ep == Head(eps)
       IN  IF ep.Interface # "public" THEN publicURL(region, Tail(eps))
           ELSE IF region # EmptyStr /\ ep.Region # region /\ ep.RegionID # region
                THEN publicURL(region, Tail(eps))
           ELSE TrimRight(ep.URL, "/")

\* the switch without the cuts of the block-storage and object-store cases
CatalogURL_KeepTenant(f, u) == ensureVersionPath(u, VersionPath(f))

\* the switch with an object-store case that cuts and does not ensure /v1
CatalogURL_CutOnly(f, u) ==
  CASE f = "block-storage" ->
         LET v   == ensureVersionPath(u, <<"/", "v", "3">>)
             idx == Index(v, <<"/", "v", "3", "/">>)
         IN  IF idx >= 0 THEN SubSeq(v, 1, idx + 3) ELSE v
    [] f = "object-store" ->
         LET idx == Index(u, <<"/", "AUTH_">>)
         IN  IF idx >= 0 THEN SubSeq(u, 1, idx) ELSE u
    [] OTHER -> ensureVersionPath(u, VersionPath(f))

\* the URL the switch stores for family f from the public URL u
CatalogURL(f, u) ==
  CASE f = "block-storage" ->
         LET v   == ensureVersionPath(u, <<"/", "v", "3">>)
             idx == Index(v, <<"/", "v", "3", "/">>)
         IN  IF idx >= 0 THEN SubSeq(v, 1, idx + 3) ELSE v
    [] f = "object-store" ->
         LET idx == Index(u, <<"/", "AUTH_">>)
             v   == IF idx >= 0 THEN SubSeq(u, 1, idx) ELSE u
         IN  ensureVersionPath(v, <<"/", "v", "1">>)
    [] OTHER -> ensureVersionPath(u, VersionPath(f))

\* one iteration of the outer loop without the test of explicitURLs
updateFromEntry_IgnorePins(c, svc) ==
  LET u == publicURL(c.Region, svc.Endpoints)
      f == TypeFamily(svc.Type)
  IN  IF u = EmptyStr THEN c
      ELSE IF f = "" THEN c
      ELSE [c EXCEPT !.URL[f] = CatalogURL(f, u)]

\* one iteration of the outer loop, for the catalog entry svc
updateFromEntry(c, svc) ==
  LET u == publicURL(c.Region, svc.Endpoints)
      f == TypeFamily(svc.Type)
  IN  IF u = EmptyStr THEN c
      ELSE IF f = "" THEN c
      ELSE IF f \in c.explicitURLs THEN c
      ELSE [c EXCEPT !.URL[f] = CatalogURL(f, u)]

\* updateEndpointsFromCatalog keeping the first URL assigned to a family
RECURSIVE updateEndpointsFromCatalog_FirstEntryWins(_, _)
updateEndpointsFromCatalog_FirstEntryWins(c, catalog) ==
  IF catalog = << >> THEN c
  ELSE updateFromEntry(
         updateEndpointsFromCatalog_FirstEntryWins(c, Tail(catalog)),
         Head(catalog))

\* updateEndpointsFromCatalog
RECURSIVE updateEndpointsFromCatalog(_, _)
updateEndpointsFromCatalog(c, catalog) ==
  IF catalog = << >> THEN c
  ELSE updateEndpointsFromCatalog(updateFromEntry(c, Head(catalog)),
                                  Tail(catalog))

(***************************************************************************)
(* Request construction and the JSON pipeline.                             *)
(***************************************************************************)
HeaderSet(h, k, v) == [n \in DOMAIN h \cup {k} |-> IF n = k THEN v ELSE h[n]]

HeaderDel(h, k) == [n \in DOMAIN h \ {k} |-> h[n]]

NoHeader == [n \in {} |-> EmptyStr]

\* newRequest setting Content-Type on every request
newRequest_ContentTypeAlways(token, method, url, hasBody) ==
  LET h1 == HeaderSet(NoHeader, "Accept", <<"application/json">>)
      h2 == HeaderSet(h1, "Content-Type", <<"application/json">>)
      h3 == IF token # EmptyStr THEN HeaderSet(h2, "X-Auth-Token", token) ELSE h2
  IN  [Method |-> method, URL |-> url, Header |-> h3]

\* newRequest, given the token read under the read lock
newRequest(token, method, url, hasBody) ==
  LET h1 == HeaderSet(NoHeader, "Accept", <<"application/json">>)
      h2 == IF hasBody
            THEN HeaderSet(h1, "Content-Type", <<"application/json">>)
            ELSE h1
      h3 == IF token # EmptyStr THEN HeaderSet(h2, "X-Auth-Token", token) ELSE h2
  IN  [Method |-> method, URL |-> url, Header |-> h3]

\* the zero tokenResponse that authenticate decodes into
ZeroResult == [Project |-> EmptyStr, Catalog |-> << >>]

\* a nil pointer: the decode target of a call that expects no body, and the
\* value a method returns next to an error
Nil == [nil |-> TRUE]

\* do without the status check
do_NoStatusCheck(resp, target) ==
  IF resp.transportErr THEN [err |-> "transport", result |-> target]
  ELSE IF resp.readErr THEN [err |-> "read", result |-> target]
  ELSE IF target # Nil /\ resp.Body.kind # "empty"
       THEN IF resp.Body.kind = "invalid"
            THEN [err |-> "unmarshal", result |-> target]
            ELSE [err |-> "none",
                  result |-> [Project |-> resp.Body.Project,
                              Catalog |-> resp.Body.Catalog]]
  ELSE [err |-> "none", result |-> target]

\* do with the status check at 500 instead of 400
do_ServerErrorsOnly(resp, target) ==
  IF resp.transportErr THEN [err |-> "transport", result |-> target]
  ELSE IF resp.readErr THEN [err |-> "read", result |-> target]
  ELSE IF resp.StatusCode >= 500 THEN [err |-> "api", result |-> target]
  ELSE IF target # Nil /\ resp.Body.kind # "empty"
       THEN IF resp.Body.kind = "invalid"
            THEN [err |-> "unmarshal", result |-> target]
            ELSE [err |-> "none",
                  result |-> [Project |-> resp.Body.Project,
                              Catalog |-> resp.Body.Catalog]]
  ELSE [err |-> "none", result |-> target]

\* do that decodes a body without bytes as well
do_DecodeEmptyBody(resp, target) ==
  IF resp.transportErr THEN [err |-> "transport", result |-> target]
  ELSE IF resp.readErr THEN [err |-> "read", result |-> target]
  ELSE IF resp.StatusCode >= 400 THEN [err |-> "api", result |-> target]
  ELSE IF target # Nil
       THEN IF resp.Body.kind \in {"invalid", "empty"}
            THEN [err |-> "unmarshal", result |-> target]
            ELSE [err |-> "none",
                  result |-> [Project |-> resp.Body.Project,
                              Catalog |-> resp.Body.Catalog]]
  ELSE [err |-> "none", result |-> target]

\* do that reports a decode failure as an *APIError
do_DecodeFailureAsAPIError(resp, target) ==
  IF resp.transportErr THEN [err |-> "transport", result |-> target]
  ELSE IF resp.readErr THEN [err |-> "read", result |-> target]
  ELSE IF resp.StatusCode >= 400 THEN [err |-> "api", result |-> target]
  ELSE IF target # Nil /\ resp.Body.kind # "empty"
       THEN IF resp.Body.kind = "invalid"
            THEN [err |-> "api", result |-> target]
            ELSE [err |-> "none",
                  result |-> [Project |-> resp.Body.Project,
                              Catalog |-> resp.Body.Catalog]]
  ELSE [err |-> "none", result |-> target]

\* do(req, result): the error it returns ("api" stands for an *APIError,
\* built by newAPIError) and the decode target afterwards.  A body of kind
\* "invalid" is one json.Unmarshal rejects for the target, "empty" has no
\* bytes, "json" decodes into the target.
do(resp, target) ==
  IF resp.transportErr THEN [err |-> "transport", result |-> target]
  ELSE IF resp.readErr THEN [err |-> "read", result |-> target]
  ELSE IF resp.StatusCode >= 400 THEN [err |-> "api", result |-> target]
  ELSE IF target # Nil /\ resp.Body.kind # "empty"
       THEN IF resp.Body.kind = "invalid"
            THEN [err |-> "unmarshal", result |-> target]
            ELSE [err |-> "none",
                  result |-> [Project |-> resp.Body.Project,
                              Catalog |-> resp.Body.Catalog]]
  ELSE [err |-> "none", result |-> target]

\* doRaw(req): the error it returns and the body bytes it returns
doRaw(resp) ==
  IF resp.transportErr THEN [err |-> "transport", body |-> Nil]
  ELSE IF resp.readErr THEN [err |-> "read", body |-> Nil]
  ELSE IF resp.StatusCode >= 400 THEN [err |-> "api", body |-> resp.Body]
  ELSE [err |-> "none", body |-> resp.Body]

(***************************************************************************)
(* The error record.  A body carries, next to its kind, the JSON document  *)
(* its bytes spell when they are valid JSON (field doc):                   *)
(*   [t |-> "null"], [t |-> "str", s |-> ..], [t |-> "num", n |-> ..] (an  *)
(*   integer), [t |-> "frac"] (a number with a fraction), [t |-> "arr"],   *)
(*   [t |-> "obj", m |-> members], members a function from keys to values. *)
(* A body of kind "json" without doc is a token response,                  *)
(* {"token": {...}}; any other body without doc is not JSON.               *)
(***************************************************************************)
JNull == [t |-> "null"]

JStr(s) == [t |-> "str", s |-> s]

JNum(n) == [t |-> "num", n |-> n]

JObj(m) == [t |-> "obj", m |-> m]

\* the JSON document of a body ([t |-> "none"] when it is not JSON)
Doc(body) ==
  IF "doc" \in DOMAIN body THEN body.doc
  ELSE IF body.kind = "json"
       THEN JObj([k \in {"token"} |-> JObj([f \in {"catalog"} |-> [t |-> "arr"]])])
  ELSE [t |-> "none"]

\* json.Unmarshal(raw, &inner), inner a struct {Message string; Code int}:
\* null decodes to the zero struct, a non-object fails, a member of the
\* wrong JSON type fails, null members and other keys are skipped
DecodeInner(v) ==
  IF v.t = "null" THEN [ok |-> TRUE, Message |-> EmptyStr, Code |-> 0]
  ELSE IF v.t # "obj" THEN [ok |-> FALSE, Message |-> EmptyStr, Code |-> 0]
  ELSE LET has(k) == k \in DOMAIN v.m
           msgT   == IF has("message") THEN v.m["message"].t ELSE "null"
           codeT  == IF has("code") THEN v.m["code"].t ELSE "null"
       IN  [ok      |-> msgT \in {"str", "null"} /\ codeT \in {"num", "null"},
            Message |-> IF msgT = "str" THEN v.m["message"].s ELSE EmptyStr,
            Code    |-> IF codeT = "num" THEN v.m["code"].n ELSE 0]

\* newAPIError that keeps the parsed fields of a member with an empty message
newAPIError_AnyMessage(statusCode, status, body) ==
  LET e == [StatusCode |-> statusCode, Status |-> status, Body |-> body,
            Message |-> EmptyStr, Code |-> 0]
      d == Doc(body)
  IN  IF d.t # "obj" THEN {e}
      ELSE LET hits == {k \in DOMAIN d.m : DecodeInner(d.m[k]).ok}
           IN  IF hits = {} THEN {e}
               ELSE {[e EXCEPT !.Message = DecodeInner(d.m[k]).Message,
                               !.Code = DecodeInner(d.m[k]).Code] : k \in hits}

\* newAPIError(statusCode, status, body): the error records it can return.
\* The body is parsed into a Go map, whose iteration order is not fixed:
\* the loop stops at the first member with a non-empty message, and any
\* such member can come first.
newAPIError(statusCode, status, body) ==
  LET e == [StatusCode |-> statusCode, Status |-> status, Body |-> body,
            Message |-> EmptyStr, Code |-> 0]
      d == Doc(body)
  IN  IF d.t # "obj" THEN {e}
      ELSE LET hits == {k \in DOMAIN d.m :
                          /\ DecodeInner(d.m[k]).ok
                          /\ DecodeInner(d.m[k]).Message # EmptyStr}
           IN  IF hits = {} THEN {e}
               ELSE {[e EXCEPT !.Message = DecodeInner(d.m[k]).Message,
                               !.Code = DecodeInner(d.m[k]).Code] : k \in hits}

\* the request of authenticate without Header.Del("X-Auth-Token")
AuthRequest_KeepToken(token, identityURL) ==
  newRequest(token, "POST", identityURL \o <<"/", "auth", "/", "tokens">>, TRUE)

\* the request of authenticate sent to the identity URL of the default
\* region instead of c.IdentityURL
AuthRequest_DefaultIdentity(token, identityURL) ==
  LET req == newRequest(token, "POST",
                        RegionURL("identity", DefaultRegion)
                          \o <<"/", "auth", "/", "tokens">>, TRUE)
  IN  [req EXCEPT !.Header = HeaderDel(req.Header, "X-Auth-Token")]

\* the request authenticate sends: newRequest, then Header.Del("X-Auth-Token")
AuthRequest(token, identityURL) ==
  LET req == newRequest(token, "POST",
                        identityURL \o <<"/", "auth", "/", "tokens">>, TRUE)
  IN  [req EXCEPT !.Header = HeaderDel(req.Header, "X-Auth-Token")]

\* the locked section storing the body's project ID also when it is empty
AuthCommit_EmptyProjectStored(c, token, tenant, tenantID, resp, result) ==
  [Token    |-> resp.SubjectToken,
   TenantID |-> IF tenantID # EmptyStr THEN tenantID ELSE result.Project,
   URL      |-> IF Len(result.Catalog) > 0
                THEN updateEndpointsFromCatalog(c, result.Catalog).URL
                ELSE c.URL]

\* the locked section of authenticate: the client fields after it
AuthCommit(c, token, tenant, tenantID, resp, result) ==
  [Token    |-> resp.SubjectToken,
   TenantID |-> IF tenantID # EmptyStr THEN tenantID
                ELSE IF result.Project # EmptyStr THEN result.Project
                ELSE tenant,
   URL      |-> IF Len(result.Catalog) > 0
                THEN updateEndpointsFromCatalog(c, result.Catalog).URL
                ELSE c.URL]

(***************************************************************************)
(* The signed-URL generator (object storage).  A word of letters is one    *)
(* token; a space, "/", "%" and "?" are tokens of their own.               *)
(***************************************************************************)
\* strings.TrimSpace
TrimSpace(s) ==
  LET I == {i \in 1..Len(s) : s[i] # " "}
  IN  IF I = {} THEN EmptyStr
      ELSE SubSeq(s, CHOOSE i \in I : \A j \in I : i <= j,
                     CHOOSE i \in I : \A j \in I : j <= i)

\* strings.ToUpper
ToUpper(s) ==
  [i \in 1..Len(s) |->
     CASE s[i] = "get"  -> "GET"
       [] s[i] = "put"  -> "PUT"
       [] s[i] = "head" -> "HEAD"
       [] OTHER         -> s[i]]

\* url.PathEscape followed by strings.ReplaceAll(encoded, "%2F", "/"): a
\* space, "%" and "?" are percent-encoded, "/" is encoded and put back
EscapeSegment(p) ==
  [i \in 1..Len(p) |->
     CASE p[i] = " " -> "%20"
       [] p[i] = "%" -> "%25"
       [] p[i] = "?" -> "%3F"
       [] OTHER      -> p[i]]

\* objectStoragePath(parts...)
RECURSIVE objectStoragePath(_, _)
objectStoragePath(c, parts) ==
  IF parts = << >> THEN c.URL["object-store"] \o <<"/", "AUTH_">> \o c.TenantID
  ELSE objectStoragePath(c, SubSeq(parts, 1, Len(parts) - 1))
         \o <<"/">> \o EscapeSegment(parts[Len(parts)])

\* url.Parse(rawURL).EscapedPath(): what follows the authority
EscapedPath(rawURL) ==
  IF Len(rawURL) = 0 \/ rawURL[1] # "https://" THEN rawURL
  ELSE LET rest  == SubSeq(rawURL, 2, Len(rawURL))
           slash == Index(rest, <<"/">>)
       IN  IF slash < 0 THEN EmptyStr ELSE SubSeq(rest, slash + 1, Len(rest))

\* strconv.FormatInt(n, 10) for n >= 0
RECURSIVE FormatInt(_)
FormatInt(n) ==
  LET digit == <<"0", "1", "2", "3", "4", "5", "6", "7", "8", "9">>[(n % 10) + 1]
  IN  IF n < 10 THEN <<digit>> ELSE FormatInt(n \div 10) \o <<digit>>

\* hex.EncodeToString of the HMAC-SHA1 of payload under key: one token that
\* names the key and the payload (two signatures are equal exactly when
\* their keys and payloads are)
HmacSHA1Hex(key, payload) == ToString(<<"hmac-sha1", key, payload>>)

\* GenerateTempURL with the expiry check `expires < 0`
GenerateTempURL_ZeroExpiryAccepted(c, method, container, objectName, key, expires) ==
  LET m       == ToUpper(TrimSpace(method))
      raw     == objectStoragePath(c, <<container, objectName>>)
      payload == m \o <<"\n">> \o FormatInt(expires) \o <<"\n">> \o EscapedPath(raw)
      fail(e) == [url |-> EmptyStr, err |-> e, hmacs |-> 0]
  IN  IF m = EmptyStr THEN fail("method is required")
      ELSE IF container = EmptyStr THEN fail("container is required")
      ELSE IF objectName = EmptyStr THEN fail("object name is required")
      ELSE IF key = EmptyStr THEN fail("temp url key is required")
      ELSE IF expires < 0 THEN fail("expires must be greater than 0")
      ELSE [url   |-> raw \o <<"?", "temp_url_expires", "=">> \o FormatInt(expires)
                         \o <<"&", "temp_url_sig", "=", HmacSHA1Hex(key, payload)>>,
            err   |-> "none",
            hmacs |-> 1]

\* GenerateTempURL that signs the method as it was passed, upper-cased
GenerateTempURL_MethodNotTrimmed(c, method, container, objectName, key, expires) ==
  LET m       == ToUpper(method)
      raw     == objectStoragePath(c, <<container, objectName>>)
      payload == m \o <<"\n">> \o FormatInt(expires) \o <<"\n">> \o EscapedPath(raw)
      fail(e) == [url |-> EmptyStr, err |-> e, hmacs |-> 0]
  IN  IF TrimSpace(m) = EmptyStr THEN fail("method is required")
      ELSE IF container = EmptyStr THEN fail("container is required")
      ELSE IF objectName = EmptyStr THEN fail("object name is required")
      ELSE IF key = EmptyStr THEN fail("temp url key is required")
      ELSE IF expires <= 0 THEN fail("expires must be greater than 0")
      ELSE [url   |-> raw \o <<"?", "temp_url_expires", "=">> \o FormatInt(expires)
                         \o <<"&", "temp_url_sig", "=", HmacSHA1Hex(key, payload)>>,
            err   |-> "none",
            hmacs |-> 1]

\* GenerateTempURL that puts the client's token under the signature
GenerateTempURL_SignsToken(c, method, container, objectName, key, expires) ==
  LET m       == ToUpper(TrimSpace(method))
      raw     == objectStoragePath(c, <<container, objectName>>)
      payload == m \o <<"\n">> \o FormatInt(expires) \o <<"\n">> \o EscapedPath(raw)
                   \o c.Token
      fail(e) == [url |-> EmptyStr, err |-> e, hmacs |-> 0]
  IN  IF m = EmptyStr THEN fail("method is required")
      ELSE IF container = EmptyStr THEN fail("container is required")
      ELSE IF objectName = EmptyStr THEN fail("object name is required")
      ELSE IF key = EmptyStr THEN fail("temp url key is required")
      ELSE IF expires <= 0 THEN fail("expires must be greater than 0")
      ELSE [url   |-> raw \o <<"?", "temp_url_expires", "=">> \o FormatInt(expires)
                         \o <<"&", "temp_url_sig", "=", HmacSHA1Hex(key, payload)>>,
            err   |-> "none",
            hmacs |-> 1]

\* GenerateTempURL(method, container, objectName, key, expires) on the
\* client c: the URL and the error it returns, and the number of HMACs it
\* computed.  q.Encode() writes the two parameters sorted by key.
GenerateTempURL(c, method, container, objectName, key, expires) ==
  LET m       == ToUpper(TrimSpace(method))
      raw     == objectStoragePath(c, <<container, objectName>>)
      payload == m \o <<"\n">> \o FormatInt(expires) \o <<"\n">> \o EscapedPath(raw)
      fail(e) == [url |-> EmptyStr, err |-> e, hmacs |-> 0]
  IN  IF m = EmptyStr THEN fail("method is required")
      ELSE IF container = EmptyStr THEN fail("container is required")
      ELSE IF objectName = EmptyStr THEN fail("object name is required")
      ELSE IF key = EmptyStr THEN fail("temp url key is required")
      ELSE IF expires <= 0 THEN fail("expires must be greater than 0")
      ELSE [url   |-> raw \o <<"?", "temp_url_expires", "=">> \o FormatInt(expires)
                         \o <<"&", "temp_url_sig", "=", HmacSHA1Hex(key, payload)>>,
            err   |-> "none",
            hmacs |-> 1]

(***************************************************************************)
(* State.                                                                  *)
(*   Token, TenantID, Region, URL, explicitURLs, explicitRegion: the       *)
(*     fields of Client (URL maps a service family to its base URL field). *)
(*   opts:  the options handed to NewClient.                               *)
(*   built: FALSE until NewClient has returned.                            *)
(*   calls: number of library operations completed on the client.          *)
(*   last:  what the most recent operation was given (tenantID, resp), the  *)
(*          token newRequest read, the request sent, the error returned    *)
(*          and whether the call took the write lock.  In SpecPipe: the    *)
(*          call, its phase, the requests sent, the response and what the  *)
(*          call returned.  In SpecTemp: the arguments of GenerateTempURL, *)
(*          its results and the HMACs computed.  In SpecVer: the arguments *)
(*          and the result of ensureVersionPath.                           *)
(*   mu:    the client's sync.RWMutex: the goroutine holding the write     *)
(*          lock ("" for none) and the goroutines holding a read lock.     *)
(*   pc, loc: where each goroutine is in its operation, and its locals.    *)
(*   hist:  the (Token, TenantID, URL) values the client has held: the     *)
(*          constructed ones and those after each Unlock of authenticate.  *)
(*          In SpecTemp: the GenerateTempURL calls that returned a URL,    *)
(*          each with the client fields at the call.                       *)
(***************************************************************************)
VARIABLES Token, TenantID, Region, URL, explicitURLs, explicitRegion,
          opts, built, calls, last, mu, pc, loc, hist

clientVars == <<Token, TenantID, Region, URL, explicitURLs, explicitRegion>>

\* the goroutine-level state, used by SpecConc only
concVars == <<mu, pc, loc, hist>>

vars == <<Token, TenantID, Region, URL, explicitURLs, explicitRegion,
          opts, built, calls, last, mu, pc, loc, hist>>

\* the resolver's view of the client
Self ==
  [Region         |-> Region,
   explicitRegion |-> explicitRegion,
   explicitURLs   |-> explicitURLs,
   URL            |-> URL]

NoCall == [op |-> "none"]

Procs == {"g1", "g2"}

MuFree == [writer |-> "", readers |-> {}]

\* the locals of a goroutine that runs no operation
LocZero ==
  [op |-> "none", tenantID |-> EmptyStr, url |-> EmptyStr, urlRead |-> FALSE,
   tenant |-> EmptyStr, token |-> EmptyStr, resp |-> [kind |-> "none"],
   result |-> [kind |-> "none"], err |-> "none"]

\* no goroutine is inside an operation
ConcIdle ==
  /\ mu = MuFree
  /\ pc = [p \in Procs |-> "idle"]
  /\ loc = [p \in Procs |-> LocZero]
  /\ hist = << >>

(***************************************************************************)
(* Inputs of construction.                                                 *)
(***************************************************************************)
\* "https://identity.c3j2.conoha.io": region pattern host, no version path
URLRegionHost == <<"https://", "identity", ".", "c3j2", ".", "conoha", ".", "io">>

\* "https://h/v2.0/": has a version path (of two families) and a trailing slash
URLVersioned == <<"https://", "h", "/", "v", "2", ".", "0", "/">>

\* "https://id": a bare host
URLBare == <<"https://", "id">>

PinURLs == {URLRegionHost, URLVersioned, URLBare, EmptyStr}

RegionInputs == {<<"c3j2">>, <<"c3j3">>, EmptyStr}

EndpointsInputs ==
  {[f \in Families |-> IF f \in S THEN URLBare ELSE EmptyStr] :
     S \in {{}, {"compute"}, {"identity", "dns"}}}

OptionPool ==
  {[kind |-> "region", v |-> r] : r \in RegionInputs}
    \cup {[kind |-> "url", f |-> f, v |-> u] : f \in Families, u \in PinURLs}
    \cup {[kind |-> "endpoints", ep |-> e] : e \in EndpointsInputs}

\* the sequences over S of length at most n
SeqsUpTo(S, n) == UNION {[1..k -> S] : k \in 0..n}

OptSeqs == SeqsUpTo(OptionPool, MaxOpts)

(***************************************************************************)
(* SpecNew: construction.  Init draws the options, Construct is NewClient.  *)
(***************************************************************************)
InitNew ==
  /\ opts \in OptSeqs
  /\ built = FALSE
  /\ Token = EmptyStr
  /\ TenantID = EmptyStr
  /\ Region = EmptyStr
  /\ explicitRegion = FALSE
  /\ explicitURLs = {}
  /\ URL = [f \in Families |-> EmptyStr]
  /\ calls = 0
  /\ last = NoCall
  /\ ConcIdle

Construct ==
  /\ ~built
  /\ LET c == NewClient(opts)
     IN  /\ Region' = c.Region
         /\ explicitRegion' = c.explicitRegion
         /\ explicitURLs' = c.explicitURLs
         /\ URL' = c.URL
  /\ built' = TRUE
  /\ UNCHANGED <<Token, TenantID, opts, calls, last>>
  /\ UNCHANGED concVars

NextNew == Construct

SpecNew == InitNew /\ [][NextNew]_vars

(***************************************************************************)
(* Inputs of authentication: what the identity service answers.            *)
(***************************************************************************)
ServiceTypes ==
  {"identity", "compute", "block-storage", "volumev3", "image", "network",
   "load-balancer", "object-store", "dns", "account"}

\* public, tagged with the default region by name; tenant segment, slash
EpPublicHere ==
  [Interface |-> "public", Region |-> <<"c3j1">>, RegionID |-> EmptyStr,
   URL |-> <<"https://", "a", "/", "v", "3", "/", "t1", "/">>]

\* public, tagged with another region; object-store style tenant segment
EpPublicThere ==
  [Interface |-> "public", Region |-> <<"c3j2">>, RegionID |-> <<"c3j2">>,
   URL |-> <<"https://", "b", "/", "v", "1", "/", "AUTH_", "t1">>]

\* not public
EpInternal ==
  [Interface |-> "internal", Region |-> <<"c3j1">>, RegionID |-> <<"c3j1">>,
   URL |-> <<"https://", "c">>]

\* public, tagged with the default region by region id only
EpByRegionID ==
  [Interface |-> "public", Region |-> EmptyStr, RegionID |-> <<"c3j1">>,
   URL |-> <<"https://", "d">>]

TokenInputs == {<<"tokA">>, <<"tokB">>}

TenantInputs == {EmptyStr, <<"t1">>}

ProjectInputs == {EmptyStr, <<"p1">>}

\* a response do() takes for a success, with status 201
OKResponse(tok, body) ==
  [transportErr |-> FALSE, readErr |-> FALSE, StatusCode |-> 201,
   SubjectToken |-> tok, Body |-> body]

JSONBody(p, cat) == [kind |-> "json", Project |-> p, Catalog |-> cat]

\* catalogs of one entry, of any service type
EntryCatalogs(eps) ==
  {<<[Type |-> t, Endpoints |-> eps]>> : t \in ServiceTypes}

\* successes of the lifecycle specification: every token with an empty body
\* or a body without catalog, and one-entry catalogs of every service type
OKResponses ==
  {OKResponse(tok, b) :
     tok \in TokenInputs,
     b \in {[kind |-> "empty"]} \cup {JSONBody(p, << >>) : p \in ProjectInputs}}
  \cup
  {OKResponse(<<"tokA">>, JSONBody(<<"p1">>, cat)) :
     cat \in EntryCatalogs(<<EpPublicHere>>)}

FailResponses ==
  {[transportErr |-> TRUE, readErr |-> FALSE, StatusCode |-> 0,
    SubjectToken |-> EmptyStr, Body |-> [kind |-> "empty"]],
   [transportErr |-> FALSE, readErr |-> TRUE, StatusCode |-> 201,
    SubjectToken |-> <<"tokB">>, Body |-> [kind |-> "empty"]],
   [transportErr |-> FALSE, readErr |-> FALSE, StatusCode |-> 401,
    SubjectToken |-> <<"tokB">>,
    Body |-> [kind |-> "json", Project |-> <<"p1">>, Catalog |-> << >>]],
   [transportErr |-> FALSE, readErr |-> FALSE, StatusCode |-> 400,
    SubjectToken |-> EmptyStr, Body |-> [kind |-> "invalid"]],
   [transportErr |-> FALSE, readErr |-> FALSE, StatusCode |-> 201,
    SubjectToken |-> <<"tokB">>, Body |-> [kind |-> "invalid"]]}

(***************************************************************************)
(* Spec: one goroutine constructs a client and calls Authenticate /        *)
(* AuthenticateByName on it, each call running to its return.              *)
(***************************************************************************)
\* the constructions the lifecycle starts from: no option, each family
\* pinned alone, the identity URL with a region host, an explicit region
LifeOptSeqs ==
  {<< >>} \cup
  {<<[kind |-> "url", f |-> f, v |-> URLBare]>> : f \in Families} \cup
  {<<[kind |-> "url", f |-> "identity", v |-> URLRegionHost]>>,
   <<[kind |-> "region", v |-> EmptyStr]>>,
   <<[kind |-> "endpoints",
      ep |-> [f \in Families |->
                IF f \in {"network", "dns"} THEN URLVersioned ELSE EmptyStr]]>>}

InitBuilt(optSeqs) ==
  /\ opts \in optSeqs
  /\ built = TRUE
  /\ Token = EmptyStr
  /\ TenantID = EmptyStr
  /\ Region = NewClient(opts).Region
  /\ explicitRegion = NewClient(opts).explicitRegion
  /\ explicitURLs = NewClient(opts).explicitURLs
  /\ URL = NewClient(opts).URL
  /\ calls = 0
  /\ last = NoCall
  /\ ConcIdle

Init == InitBuilt(LifeOptSeqs)

\* authenticate(ctx, authReq, tenantID), answered by resp
authenticate(op, tenantID, resp) ==
  LET req == AuthRequest(Token, URL["identity"])
      r   == do(resp, ZeroResult)
      new == AuthCommit(Self, Token, TenantID, tenantID, resp, r.result)
  IN  /\ calls' = calls + 1
      /\ UNCHANGED <<Region, explicitURLs, explicitRegion, opts, built>>
      /\ UNCHANGED concVars
      /\ IF r.err # "none"
         THEN /\ UNCHANGED <<Token, TenantID, URL>>
              /\ last' = [op |-> op, tenantID |-> tenantID, resp |-> resp,
                          token |-> Token, req |-> req, err |-> r.err,
                          locked |-> FALSE]
         ELSE /\ Token' = new.Token
              /\ TenantID' = new.TenantID
              /\ URL' = new.URL
              /\ last' = [op |-> op, tenantID |-> tenantID, resp |-> resp,
                          token |-> Token, req |-> req, err |-> "none",
                          locked |-> TRUE]

\* Authenticate marking the families it discovered as pinned
Authenticate_PinsDiscovered ==
  /\ built
  /\ calls < MaxCalls
  /\ \E tenantID \in TenantInputs :
       \E resp \in OKResponses :
         LET r   == do(resp, ZeroResult)
             new == AuthCommit(Self, Token, TenantID, tenantID, resp, r.result)
         IN  /\ Token' = new.Token
             /\ TenantID' = new.TenantID
             /\ URL' = new.URL
             /\ explicitURLs' =
                  explicitURLs \cup {f \in Families : new.URL[f] # URL[f]}
             /\ last' = [op |-> "Authenticate", tenantID |-> tenantID,
                         resp |-> resp, token |-> Token,
                         req |-> AuthRequest(Token, URL["identity"]),
                         err |-> "none", locked |-> TRUE]
  /\ calls' = calls + 1
  /\ UNCHANGED <<Region, explicitRegion, opts, built>>
  /\ UNCHANGED concVars

\* Authenticate(ctx, userID, password, tenantID)
Authenticate ==
  /\ built
  /\ calls < MaxCalls
  /\ \E tenantID \in TenantInputs :
       \E resp \in OKResponses \cup FailResponses :
         authenticate("Authenticate", tenantID, resp)

\* AuthenticateByName(ctx, userName, password, tenantName)
AuthenticateByName ==
  /\ built
  /\ calls < MaxCalls
  /\ \E resp \in OKResponses \cup FailResponses :
       authenticate("AuthenticateByName", EmptyStr, resp)

Next == Authenticate \/ AuthenticateByName

Spec == Init /\ [][Next]_vars

(***************************************************************************)
(* SpecCat: a client is constructed and updateEndpointsFromCatalog runs    *)
(* once on it, with a catalog of up to MaxCatalog entries.                 *)
(***************************************************************************)
\* public, of the default region, with a URL of slashes only
EpSlashes ==
  [Interface |-> "public", Region |-> <<"c3j1">>, RegionID |-> <<"c3j1">>,
   URL |-> <<"/", "/">>]

\* the endpoint lists of a catalog entry
EndpointLists ==
  {<<EpPublicHere>>,
   <<EpInternal, EpPublicThere>>,
   <<EpPublicThere, EpByRegionID, EpPublicHere>>,
   <<EpInternal, EpSlashes, EpPublicHere>>}

CatEntries ==
  {[Type |-> t, Endpoints |-> eps] : t \in ServiceTypes, eps \in EndpointLists}

Catalogs == SeqsUpTo(CatEntries, MaxCatalog)

\* the constructions of SpecCat: the three regions a catalog can be
\* filtered by, and pinned families
CatOptSeqs ==
  {<< >>,
   <<[kind |-> "region", v |-> EmptyStr]>>,
   <<[kind |-> "region", v |-> <<"c3j2">>]>>,
   <<[kind |-> "url", f |-> "identity", v |-> URLRegionHost]>>,
   <<[kind |-> "url", f |-> "compute", v |-> URLBare]>>,
   <<[kind |-> "endpoints",
      ep |-> [f \in Families |->
                IF f \in {"block-storage", "object-store"}
                THEN URLBare ELSE EmptyStr]]>>}

InitCat == InitBuilt(CatOptSeqs)

\* c.updateEndpointsFromCatalog(catalog)
UpdateEndpoints ==
  /\ built
  /\ calls = 0
  /\ \E catalog \in Catalogs :
       /\ URL' = updateEndpointsFromCatalog(Self, catalog).URL
       /\ last' = [op |-> "updateEndpointsFromCatalog", catalog |-> catalog,
                   pre |-> URL]
  /\ calls' = calls + 1
  /\ UNCHANGED <<Token, TenantID, Region, explicitURLs, explicitRegion,
                 opts, built>>
  /\ UNCHANGED concVars

NextCat == UpdateEndpoints

SpecCat == InitCat /\ [][NextCat]_vars

(***************************************************************************)
(* SpecConc: goroutines share one client.  Each operation is a sequence of *)
(* steps: every lock call, every read or write of a Client field and the   *)
(* network round trip is a step of its own, so that the steps of different *)
(* goroutines interleave as the scheduler allows.                          *)
(*                                                                         *)
(* sync.RWMutex: Lock waits for no reader and no writer, RLock for no      *)
(* writer.  (That a waiting Lock holds back later RLock calls removes      *)
(* schedules but no reachable state, and is left out.)                     *)
(*                                                                         *)
(* A read of a field without the lock, made while another goroutine is at  *)
(* its write of the field, is a data race: the read yields the old value,  *)
(* the value being written, or a torn string.                              *)
(***************************************************************************)
\* the operations a goroutine can start, with the family whose URL they use
ConcOps == {"Authenticate", "AuthenticateByName", "ListVolumes", "UploadObject"}

OpFamily(op) ==
  CASE op = "ListVolumes"  -> "block-storage"
    [] op = "UploadObject" -> "object-store"
    [] OTHER               -> "identity"

\* the catalog of the successful response with a body
ConcCatalog ==
  <<[Type |-> "identity", Endpoints |-> <<EpByRegionID>>],
    [Type |-> "block-storage", Endpoints |-> <<EpPublicHere>>],
    [Type |-> "object-store", Endpoints |-> <<EpByRegionID>>]>>

ConcResponses ==
  {OKResponse(<<"tokA">>, JSONBody(<<"p1">>, ConcCatalog)),
   OKResponse(<<"tokB">>, [kind |-> "empty"]),
   [transportErr |-> FALSE, readErr |-> FALSE, StatusCode |-> 401,
    SubjectToken |-> EmptyStr, Body |-> [kind |-> "invalid"]]}

\* a string read while it is being written
Torn == <<"?">>

\* the current (Token, TenantID, URL) of the client
Version == [Token |-> Token, TenantID |-> TenantID, URL |-> URL]

InitConc ==
  /\ opts = << >>
  /\ built = TRUE
  /\ Token = EmptyStr
  /\ TenantID = EmptyStr
  /\ Region = NewClient(opts).Region
  /\ explicitRegion = NewClient(opts).explicitRegion
  /\ explicitURLs = NewClient(opts).explicitURLs
  /\ URL = NewClient(opts).URL
  /\ calls = 0
  /\ last = NoCall
  /\ mu = MuFree
  /\ pc = [p \in Procs |-> "idle"]
  /\ loc = [p \in Procs |-> LocZero]
  /\ hist = <<[Token |-> EmptyStr, TenantID |-> EmptyStr,
               URL |-> NewClient(opts).URL]>>

\* what the locked section of goroutine q is going to store
Pending(q) ==
  AuthCommit(Self, Token, TenantID, loc[q].tenantID, loc[q].resp, loc[q].result)

\* the families whose URL field updateEndpointsFromCatalog assigns
Assigned(c, catalog) ==
  {f \in Families \ c.explicitURLs :
     \E i \in 1..Len(catalog) :
       /\ TypeFamily(catalog[i].Type) = f
       /\ publicURL(c.Region, catalog[i].Endpoints) # EmptyStr}

\* goroutine q is at its write of Token / of the URL field of family f
WritingToken(q) == pc[q] = "auth_w_token"

WritingURL(q, f) ==
  /\ pc[q] = "auth_w_urls"
  /\ f \in Assigned(Self, loc[q].result.Catalog)

\* the values a read of c.Token without the lock can yield
UnlockedToken ==
  {Token} \cup UNION {{Pending(q).Token, Torn} : q \in {r \in Procs : WritingToken(r)}}

\* the values a read of the URL field of family f without the lock can yield
UnlockedURL(f) ==
  {URL[f]} \cup UNION {{Pending(q).URL[f], Torn} : q \in {r \in Procs : WritingURL(r, f)}}

ClientFrame == UNCHANGED <<Token, TenantID, URL>>

Frame == UNCHANGED <<Region, explicitURLs, explicitRegion, opts, built, last>>

\* a goroutine calls one of the operations
Start(p) ==
  /\ pc[p] = "idle"
  /\ calls < MaxCalls
  /\ \E op \in ConcOps :
       /\ loc' = [loc EXCEPT ![p] =
                    [LocZero EXCEPT !.op = op,
                                    !.tenantID = IF op = "Authenticate"
                                                 THEN <<"t1">> ELSE EmptyStr]]
       /\ pc' = [pc EXCEPT ![p] =
                   IF op \in {"Authenticate", "AuthenticateByName"}
                   THEN "auth_url" ELSE "res_path"]
  /\ calls' = calls + 1
  /\ ClientFrame /\ Frame /\ UNCHANGED <<mu, hist>>

\* authenticate: url := c.IdentityURL + "/auth/tokens" (no lock held)
AuthReadURL(p) ==
  /\ pc[p] = "auth_url"
  /\ \E u \in UnlockedURL("identity") :
       loc' = [loc EXCEPT ![p].url = u \o <<"/", "auth", "/", "tokens">>,
                          ![p].urlRead = TRUE]
  /\ pc' = [pc EXCEPT ![p] = "req_rlock"]
  /\ ClientFrame /\ Frame /\ UNCHANGED <<mu, hist, calls>>

\* newRequest: c.mu.RLock()
ReqRLock(p) ==
  /\ pc[p] = "req_rlock"
  /\ mu.writer = ""
  /\ mu' = [mu EXCEPT !.readers = @ \cup {p}]
  /\ pc' = [pc EXCEPT ![p] = "req_token"]
  /\ ClientFrame /\ Frame /\ UNCHANGED <<loc, hist, calls>>

\* newRequest: token := c.Token
ReqReadToken(p) ==
  /\ pc[p] = "req_token"
  /\ loc' = [loc EXCEPT ![p].token = Token]
  /\ pc' = [pc EXCEPT ![p] = "req_runlock"]
  /\ ClientFrame /\ Frame /\ UNCHANGED <<mu, hist, calls>>

\* newRequest returning with the read lock still held
ReqRUnlock_KeepLock(p) ==
  /\ pc[p] = "req_runlock"
  /\ pc' = [pc EXCEPT ![p] =
              IF loc[p].op \in {"Authenticate", "AuthenticateByName"}
              THEN "auth_do" ELSE "res_do"]
  /\ ClientFrame /\ Frame /\ UNCHANGED <<mu, loc, hist, calls>>

\* newRequest: c.mu.RUnlock(); the request is complete
ReqRUnlock(p) ==
  /\ pc[p] = "req_runlock"
  /\ mu' = [mu EXCEPT !.readers = @ \ {p}]
  /\ pc' = [pc EXCEPT ![p] =
              IF loc[p].op \in {"Authenticate", "AuthenticateByName"}
              THEN "auth_do" ELSE "res_do"]
  /\ ClientFrame /\ Frame /\ UNCHANGED <<loc, hist, calls>>

\* authenticate: c.do(httpReq, &result), the round trip to the identity
\* service; an error returns from authenticate
AuthDo(p) ==
  /\ pc[p] = "auth_do"
  /\ \E resp \in ConcResponses :
       LET r == do(resp, ZeroResult)
       IN  /\ loc' = [loc EXCEPT ![p].resp = resp, ![p].result = r.result,
                                 ![p].err = r.err]
           /\ pc' = [pc EXCEPT ![p] = IF r.err # "none" THEN "done"
                                      ELSE "auth_lock"]
  /\ ClientFrame /\ Frame /\ UNCHANGED <<mu, hist, calls>>

\* c.mu.Lock() that does not wait for the goroutine holding the write lock
AuthLock_NoExclusion(p) ==
  /\ pc[p] = "auth_lock"
  /\ mu.readers = {}
  /\ mu' = [mu EXCEPT !.writer = p]
  /\ pc' = [pc EXCEPT ![p] = "auth_w_token"]
  /\ ClientFrame /\ Frame /\ UNCHANGED <<loc, hist, calls>>

\* authenticate: c.mu.Lock()
AuthLock(p) ==
  /\ pc[p] = "auth_lock"
  /\ mu.writer = ""
  /\ mu.readers = {}
  /\ mu' = [mu EXCEPT !.writer = p]
  /\ pc' = [pc EXCEPT ![p] = "auth_w_token"]
  /\ ClientFrame /\ Frame /\ UNCHANGED <<loc, hist, calls>>

\* authenticate: c.Token = resp.Header.Get("X-Subject-Token")
AuthWriteToken(p) ==
  /\ pc[p] = "auth_w_token"
  /\ Token' = Pending(p).Token
  /\ pc' = [pc EXCEPT ![p] = "auth_w_tenant"]
  /\ UNCHANGED <<TenantID, URL>>
  /\ Frame /\ UNCHANGED <<mu, loc, hist, calls>>

\* authenticate: the assignment of c.TenantID
AuthWriteTenant(p) ==
  /\ pc[p] = "auth_w_tenant"
  /\ TenantID' = Pending(p).TenantID
  /\ pc' = [pc EXCEPT ![p] = "auth_w_urls"]
  /\ UNCHANGED <<Token, URL>>
  /\ Frame /\ UNCHANGED <<mu, loc, hist, calls>>

\* authenticate: c.updateEndpointsFromCatalog(result.Token.Catalog)
AuthWriteURLs(p) ==
  /\ pc[p] = "auth_w_urls"
  /\ URL' = Pending(p).URL
  /\ pc' = [pc EXCEPT ![p] = "auth_unlock"]
  /\ UNCHANGED <<Token, TenantID>>
  /\ Frame /\ UNCHANGED <<mu, loc, hist, calls>>

\* authenticate: c.mu.Unlock()
AuthUnlock(p) ==
  /\ pc[p] = "auth_unlock"
  /\ mu' = [mu EXCEPT !.writer = ""]
  /\ hist' = Append(hist, Version)
  /\ pc' = [pc EXCEPT ![p] = "done"]
  /\ ClientFrame /\ Frame /\ UNCHANGED <<loc, calls>>

\* a resource method: the read of its c.<Service>URL field (no lock held).
\* The field is an operand next to the call c.tenantID(); Go fixes no order
\* between the two, so the read comes before or after the call.
ResReadURL(p) ==
  /\ pc[p] \in {"res_path", "res_url"}
  /\ \E u \in UnlockedURL(OpFamily(loc[p].op)) :
       loc' = [loc EXCEPT ![p].url = u, ![p].urlRead = TRUE]
  /\ pc' = [pc EXCEPT ![p] =
              IF pc[p] = "res_path" THEN "ten_rlock"
              ELSE IF loc[p].op = "UploadObject" THEN "up_token"
              ELSE "req_rlock"]
  /\ ClientFrame /\ Frame /\ UNCHANGED <<mu, hist, calls>>

\* tenantID: c.mu.RLock()
TenRLock(p) ==
  /\ pc[p] \in {"res_path", "ten_rlock"}
  /\ mu.writer = ""
  /\ mu' = [mu EXCEPT !.readers = @ \cup {p}]
  /\ pc' = [pc EXCEPT ![p] = "ten_read"]
  /\ ClientFrame /\ Frame /\ UNCHANGED <<loc, hist, calls>>

\* tenantID: return c.TenantID
TenRead(p) ==
  /\ pc[p] = "ten_read"
  /\ loc' = [loc EXCEPT ![p].tenant = TenantID]
  /\ pc' = [pc EXCEPT ![p] = "ten_runlock"]
  /\ ClientFrame /\ Frame /\ UNCHANGED <<mu, hist, calls>>

\* tenantID: the deferred c.mu.RUnlock()
TenRUnlock(p) ==
  /\ pc[p] = "ten_runlock"
  /\ mu' = [mu EXCEPT !.readers = @ \ {p}]
  /\ pc' = [pc EXCEPT ![p] =
              IF ~loc[p].urlRead THEN "res_url"
              ELSE IF loc[p].op = "UploadObject" THEN "up_token"
              ELSE "req_rlock"]
  /\ ClientFrame /\ Frame /\ UNCHANGED <<loc, hist, calls>>

\* UploadObject: req.Header.Set("X-Auth-Token", c.Token) (no lock held)
UploadReadToken(p) ==
  /\ pc[p] = "up_token"
  /\ \E t \in UnlockedToken : loc' = [loc EXCEPT ![p].token = t]
  /\ pc' = [pc EXCEPT ![p] = "res_do"]
  /\ ClientFrame /\ Frame /\ UNCHANGED <<mu, hist, calls>>

\* a resource method: the round trip of its request
ResDo(p) ==
  /\ pc[p] = "res_do"
  /\ pc' = [pc EXCEPT ![p] = "done"]
  /\ ClientFrame /\ Frame /\ UNCHANGED <<mu, loc, hist, calls>>

\* the operation returns to its caller
Return(p) ==
  /\ pc[p] = "done"
  /\ pc' = [pc EXCEPT ![p] = "idle"]
  /\ loc' = [loc EXCEPT ![p] = LocZero]
  /\ ClientFrame /\ Frame /\ UNCHANGED <<mu, hist, calls>>

NextConc ==
  \E p \in Procs :
    \/ Start(p)
    \/ AuthReadURL(p)
    \/ ReqRLock(p)
    \/ ReqReadToken(p)
    \/ ReqRUnlock(p)
    \/ AuthDo(p)
    \/ AuthLock(p)
    \/ AuthWriteToken(p)
    \/ AuthWriteTenant(p)
    \/ AuthWriteURLs(p)
    \/ AuthUnlock(p)
    \/ ResReadURL(p)
    \/ TenRLock(p)
    \/ TenRead(p)
    \/ TenRUnlock(p)
    \/ UploadReadToken(p)
    \/ ResDo(p)
    \/ Return(p)

SpecConc == InitConc /\ [][NextConc]_vars

(***************************************************************************)
(* SpecPipe: the request/response pipeline.  One goroutine calls library   *)
(* methods; a method builds its request, hands it to do (or doRaw) and     *)
(* returns.  The round trip c.HTTPClient.Do(req) is a step of its own, so  *)
(* that the requests of one invocation are counted in last.sent.           *)
(*   ListVolumes:  do with a fresh typed target, returns (result, err)     *)
(*   DeleteVolume: do with a nil target, returns err                       *)
(*   doRaw:        the raw-bytes pipeline, returns (body, err)             *)
(***************************************************************************)
PipeOps == {"ListVolumes", "DeleteVolume", "doRaw"}

\* the decode target the method hands to do
PipeTarget(op) == IF op = "ListVolumes" THEN ZeroResult ELSE Nil

StatusCodes == {200, 204, 301, 399, 400, 404, 500, 599}

\* resp.Status, the status line of the code
StatusText(code) == <<"status", code>>

\* a JSON object that is no token response: decoding it into the typed
\* target sets no field
ObjectBody(m) ==
  [kind |-> "json", Project |-> EmptyStr, Catalog |-> << >>, doc |-> JObj(m)]

\* {"message": msg, "code": code}
ErrorObject(msg, code) == JObj(("message" :> msg) @@ ("code" :> code))

PipeBodies ==
  {[kind |-> "empty"],
   \* "Internal Server Error", "not json"
   [kind |-> "invalid"],
   \* "[]": JSON, but no object
   [kind |-> "invalid", doc |-> [t |-> "arr"]],
   \* a token response
   JSONBody(<<"p1">>, << >>),
   \* {"itemNotFound": {"message": "Server not found", "code": 404}}
   ObjectBody("itemNotFound" :> ErrorObject(JStr(<<"Server not found">>), JNum(404))),
   \* {"badRequest": {"message": "Invalid input"}}
   ObjectBody("badRequest" :> JObj("message" :> JStr(<<"Invalid input">>))),
   \* {"error": {"message": "", "code": 404}}
   ObjectBody("error" :> ErrorObject(JStr(EmptyStr), JNum(404))),
   \* {"error": {"message": "quota", "code": "403"}}
   ObjectBody("error" :> ErrorObject(JStr(<<"quota">>), JStr(<<"403">>))),
   \* {"error": {"message": 5, "code": 500}}
   ObjectBody("error" :> ErrorObject(JNum(5), JNum(500))),
   \* {"error": null}
   ObjectBody("error" :> JNull),
   \* {"error": "oops"}
   ObjectBody("error" :> JStr(<<"oops">>)),
   \* {"request_id": "r1", "conflict": {"message": "locked", "code": 409}}
   ObjectBody(("request_id" :> JStr(<<"r1">>))
                @@ ("conflict" :> ErrorObject(JStr(<<"locked">>), JNum(409)))),
   \* {"a": {"message": "first", "code": 1}, "b": {"message": "second", "code": 2}}
   ObjectBody(("a" :> ErrorObject(JStr(<<"first">>), JNum(1)))
                @@ ("b" :> ErrorObject(JStr(<<"second">>), JNum(2))))}

PipeResponses ==
  {[transportErr |-> FALSE, readErr |-> FALSE, StatusCode |-> code,
    Status |-> StatusText(code), SubjectToken |-> EmptyStr, Body |-> b] :
     code \in StatusCodes, b \in PipeBodies}
  \cup
  \* the body cannot be read to its end
  {[transportErr |-> FALSE, readErr |-> TRUE, StatusCode |-> code,
    Status |-> StatusText(code), SubjectToken |-> EmptyStr,
    Body |-> [kind |-> "empty"]] : code \in {200, 404}}
  \cup
  \* no response at all
  {[transportErr |-> TRUE, readErr |-> FALSE, StatusCode |-> 0,
    Status |-> EmptyStr, SubjectToken |-> EmptyStr, Body |-> [kind |-> "empty"]]}

InitPipe == InitBuilt({<< >>})

\* a method is called and builds its request
PipeCall ==
  /\ built
  /\ calls < MaxCalls
  /\ IF last.op = "none" THEN TRUE ELSE last.phase = "returned"
  /\ \E op \in PipeOps :
       last' = [op |-> op, phase |-> "send", sent |-> 0,
                target |-> PipeTarget(op)]
  /\ calls' = calls + 1
  /\ UNCHANGED clientVars
  /\ UNCHANGED <<opts, built>>
  /\ UNCHANGED concVars

\* do / doRaw: c.HTTPClient.Do(req) and what follows it
PipeRoundTrip ==
  /\ last.op \in PipeOps
  /\ last.phase = "send"
  /\ \E resp \in PipeResponses :
       LET r == IF last.op = "doRaw" THEN doRaw(resp) ELSE do(resp, last.target)
       IN  \E e \in (IF r.err = "api"
                      THEN newAPIError(resp.StatusCode, resp.Status, resp.Body)
                      ELSE {Nil}) :
             last' = [op |-> last.op, phase |-> "return",
                      sent |-> last.sent + 1, target |-> last.target,
                      resp |-> resp, err |-> r.err, apiErr |-> e,
                      out |-> IF last.op = "doRaw" THEN r.body ELSE r.result]
  /\ UNCHANGED clientVars
  /\ UNCHANGED <<opts, built, calls>>
  /\ UNCHANGED concVars

\* a method that sends its request again after a failure
PipeReturn_RetryOnFailure ==
  /\ last.op \in PipeOps
  /\ last.phase = "return"
  /\ last' = IF last.err # "none" /\ last.sent < 2
             THEN [op |-> last.op, phase |-> "send", sent |-> last.sent,
                   target |-> last.target]
             ELSE [op |-> last.op, phase |-> "returned", sent |-> last.sent,
                   target |-> last.target, resp |-> last.resp,
                   err |-> last.err, apiErr |-> last.apiErr, out |-> last.out,
                   ret |-> IF last.err # "none" THEN Nil ELSE last.out]
  /\ UNCHANGED clientVars
  /\ UNCHANGED <<opts, built, calls>>
  /\ UNCHANGED concVars

\* the method returns to its caller: nil and the error of do after a
\* failure, the decoded result otherwise; doRaw returns its body as it is
PipeReturn ==
  /\ last.op \in PipeOps
  /\ last.phase = "return"
  /\ last' = [op |-> last.op, phase |-> "returned", sent |-> last.sent,
              target |-> last.target, resp |-> last.resp,
              err |-> last.err, apiErr |-> last.apiErr, out |-> last.out,
              ret |-> IF last.op # "doRaw" /\ last.err # "none"
                      THEN Nil ELSE last.out]
  /\ UNCHANGED clientVars
  /\ UNCHANGED <<opts, built, calls>>
  /\ UNCHANGED concVars

NextPipe == PipeCall \/ PipeRoundTrip \/ PipeReturn

SpecPipe == InitPipe /\ [][NextPipe]_vars

(***************************************************************************)
(* SpecTemp: one goroutine calls GenerateTempURL and Authenticate on a     *)
(* client in any order.  hist keeps the successful GenerateTempURL calls:  *)
(* their arguments, the URL returned and the ObjectStorageURL and TenantID *)
(* of the client at the call.                                              *)
(***************************************************************************)
TempMethods == {EmptyStr, <<"put">>, <<" ", "get", " ">>}

TempContainers == {EmptyStr, <<"c">>}

TempObjects == {EmptyStr, <<"a", "/", "b", " ", "c.txt">>}

TempKeys == {EmptyStr, <<"key">>}

TempExpiries == {-1, 0, 1700000000}

\* what the identity service answers in SpecTemp: a token alone; a token
\* with a project and an object-store endpoint; a rejection
TempResponses ==
  {OKResponse(<<"tokB">>, [kind |-> "empty"]),
   OKResponse(<<"tokA">>,
              JSONBody(<<"p1">>,
                       <<[Type |-> "object-store", Endpoints |-> <<EpByRegionID>>]>>)),
   [transportErr |-> FALSE, readErr |-> FALSE, StatusCode |-> 401,
    SubjectToken |-> EmptyStr, Body |-> [kind |-> "invalid"]]}

\* the fields of the client GenerateTempURL has at hand
SelfState == [URL |-> URL, TenantID |-> TenantID, Token |-> Token]

InitTemp == InitBuilt({<< >>})

\* c.GenerateTempURL(method, container, objectName, key, expires)
CallGenerateTempURL ==
  /\ built
  /\ Len(hist) < MaxTempURLs
  /\ \E method \in TempMethods, container \in TempContainers,
        objectName \in TempObjects, key \in TempKeys, expires \in TempExpiries :
       LET r    == GenerateTempURL(SelfState, method, container, objectName,
                                   key, expires)
           args == [method |-> method, container |-> container,
                    objectName |-> objectName, key |-> key, expires |-> expires]
       IN  /\ last' = [op |-> "GenerateTempURL", args |-> args, url |-> r.url,
                       err |-> r.err, hmacs |-> r.hmacs]
           /\ hist' = IF r.err = "none"
                      THEN Append(hist, [args |-> args, url |-> r.url,
                                         ObjectStorageURL |-> URL["object-store"],
                                         TenantID |-> TenantID, Token |-> Token])
                      ELSE hist
  /\ UNCHANGED clientVars
  /\ UNCHANGED <<opts, built, calls, mu, pc, loc>>

\* a call between two GenerateTempURL calls: Authenticate with the
\* project t1 when the answer has a body, AuthenticateByName otherwise
TempAuthenticate ==
  /\ built
  /\ calls < MaxCalls
  /\ \E resp \in TempResponses :
       IF resp.Body.kind = "json"
       THEN authenticate("Authenticate", <<"t1">>, resp)
       ELSE authenticate("AuthenticateByName", EmptyStr, resp)

NextTemp == CallGenerateTempURL \/ TempAuthenticate

SpecTemp == InitTemp /\ [][NextTemp]_vars

(***************************************************************************)
(* SpecReq: request construction.  One goroutine authenticates and builds  *)
(* requests with newRequest, as every resource method does; the request    *)
(* built is kept in last.                                                  *)
(***************************************************************************)
ReqMethods == {"GET", "POST", "DELETE"}

\* the body handed to newRequest: nil, a value, a value json.Marshal rejects
ReqBodies == {"nil", "value", "unmarshalable"}

\* the resource paths appended to a base URL
ReqPaths == {<<"/", "servers">>, <<"/", "volumes", "/", "v1">>}

\* what the identity service answers in SpecReq: two tokens, a rejection
ReqResponses ==
  {OKResponse(<<"tokA">>, JSONBody(<<"p1">>, << >>)),
   OKResponse(<<"tokB">>, [kind |-> "empty"]),
   [transportErr |-> FALSE, readErr |-> FALSE, StatusCode |-> 401,
    SubjectToken |-> <<"tokB">>, Body |-> [kind |-> "invalid"]]}

InitReq == InitBuilt({<< >>})

\* c.newRequest(ctx, method, url, body): a body that cannot be marshalled
\* returns an error and no request
CallNewRequest ==
  /\ built
  /\ \E method \in ReqMethods, f \in {"compute", "block-storage"},
        path \in ReqPaths, body \in ReqBodies :
       last' = IF body = "unmarshalable"
               THEN [op |-> "newRequest", body |-> body, token |-> Token,
                     err |-> "marshal", req |-> Nil]
               ELSE [op |-> "newRequest", body |-> body, token |-> Token,
                     err |-> "none",
                     req |-> newRequest(Token, method, URL[f] \o path,
                                        body # "nil")]
  /\ UNCHANGED clientVars
  /\ UNCHANGED <<opts, built, calls, mu, pc, loc, hist>>

\* Authenticate / AuthenticateByName between two requests
ReqAuthenticate ==
  /\ built
  /\ calls < MaxCalls
  /\ \E resp \in ReqResponses :
       authenticate("AuthenticateByName", EmptyStr, resp)

NextReq == CallNewRequest \/ ReqAuthenticate

SpecReq == InitReq /\ [][NextReq]_vars

(***************************************************************************)
(* SpecErr: newAPIError on its own.  A status and a body are handed to     *)
(* newAPIError, and the same status and body are handed to it once more,   *)
(* as when the service answers two requests alike.                         *)
(***************************************************************************)
InitErr == InitBuilt({<< >>})

\* newAPIError(statusCode, status, body)
CallNewAPIError ==
  /\ last.op = "none"
  /\ \E code \in StatusCodes, body \in PipeBodies :
       \E e \in newAPIError(code, StatusText(code), body) :
         last' = [op |-> "newAPIError", n |-> 1, statusCode |-> code,
                  body |-> body, first |-> e, ret |-> e]
  /\ UNCHANGED clientVars
  /\ UNCHANGED <<opts, built, calls, mu, pc, loc, hist>>

\* newAPIError(statusCode, status, body) with the arguments of the call before
CallNewAPIErrorAgain ==
  /\ last.op = "newAPIError"
  /\ last.n = 1
  /\ \E e \in newAPIError(last.statusCode, StatusText(last.statusCode),
                          last.body) :
       last' = [last EXCEPT !.n = 2, !.ret = e]
  /\ UNCHANGED clientVars
  /\ UNCHANGED <<opts, built, calls, mu, pc, loc, hist>>

NextErr == CallNewAPIError \/ CallNewAPIErrorAgain

SpecErr == InitErr /\ [][NextErr]_vars

(***************************************************************************)
(* SpecRes: clients constructed from degenerate options (an empty pinned   *)
(* URL, a pinned URL of slashes, an empty region) authenticate against     *)
(* catalogs with degenerate endpoint URLs.                                 *)
(***************************************************************************)
ResOptSeqs ==
  {<< >>,
   <<[kind |-> "url", f |-> "identity", v |-> EmptyStr]>>,
   <<[kind |-> "url", f |-> "dns", v |-> <<"/", "/">>]>>,
   <<[kind |-> "region", v |-> EmptyStr]>>,
   <<[kind |-> "endpoints", ep |-> [f \in Families |-> EmptyStr]]>>}

\* public, of the default region, with a URL that is a tenant segment only
EpAuthOnly ==
  [Interface |-> "public", Region |-> <<"c3j1">>, RegionID |-> <<"c3j1">>,
   URL |-> <<"/", "AUTH_", "t1">>]

\* the endpoint lists of a catalog entry in SpecRes
ResEndpointLists ==
  {<<EpAuthOnly>>, <<EpSlashes, EpPublicHere>>, <<EpInternal, EpByRegionID>>}

\* what the identity service answers in SpecRes: one-entry catalogs of
\* every service type, an empty catalog, a rejection
ResResponses ==
  {OKResponse(<<"tokA">>, JSONBody(<<"p1">>, cat)) :
     cat \in {<< >>} \cup UNION {EntryCatalogs(eps) : eps \in ResEndpointLists}}
  \cup
  {[transportErr |-> FALSE, readErr |-> FALSE, StatusCode |-> 401,
    SubjectToken |-> EmptyStr, Body |-> [kind |-> "invalid"]]}

InitRes == InitBuilt(ResOptSeqs)

\* Authenticate / AuthenticateByName, answered by one of ResResponses
ResAuthenticate ==
  /\ built
  /\ calls < MaxCalls
  /\ \E resp \in ResResponses :
       authenticate("AuthenticateByName", EmptyStr, resp)

NextRes == ResAuthenticate

SpecRes == InitRes /\ [][NextRes]_vars

(***************************************************************************)
(* SpecVer: ensureVersionPath on its own.  A URL and a version path are    *)
(* handed to ensureVersionPath, and its result is handed to it once more   *)
(* with the same version path.                                             *)
(***************************************************************************)
\* the characters after the host of a URL
VerChars == {"/", "v", "1", "2"}

\* the URLs: a scheme and a host followed by up to MaxURLLen characters
VerURLs ==
  {<<"https://", "h">> \o t :
     t \in UNION {[1..n -> VerChars] : n \in 0..MaxURLLen}}

\* the version paths: two of the client's, a lone slash and the empty string
VerPaths == {<<"/", "v", "1">>, <<"/", "v", "2">>, <<"/">>, EmptyStr}

InitVer == InitBuilt({<< >>})

\* ensureVersionPath(rawURL, versionPath)
CallEnsureVersionPath ==
  /\ last.op = "none"
  /\ \E rawURL \in VerURLs, versionPath \in VerPaths :
       last' = [op |-> "ensureVersionPath", applied |-> 1,
                rawURL |-> rawURL, versionPath |-> versionPath,
                arg |-> rawURL,
                ret |-> ensureVersionPath(rawURL, versionPath)]
  /\ UNCHANGED clientVars
  /\ UNCHANGED <<opts, built, calls, mu, pc, loc, hist>>

\* ensureVersionPath(ensureVersionPath(rawURL, versionPath), versionPath)
CallEnsureVersionPathAgain ==
  /\ last.op = "ensureVersionPath"
  /\ last.applied = 1
  /\ last' = [last EXCEPT !.applied = 2,
                          !.arg = last.ret,
                          !.ret = ensureVersionPath(last.ret, last.versionPath)]
  /\ UNCHANGED clientVars
  /\ UNCHANGED <<opts, built, calls, mu, pc, loc, hist>>

NextVer == CallEnsureVersionPath \/ CallEnsureVersionPathAgain

SpecVer == InitVer /\ [][NextVer]_vars

(***************************************************************************)
(* Properties of construction (checked under SpecNew).                     *)
(***************************************************************************)
\* the families an option pins
PinsOf(o) ==
  CASE o.kind = "url"       -> {o.f}
    [] o.kind = "endpoints" -> {f \in Families : o.ep[f] # EmptyStr}
    [] o.kind = "region"    -> {}

\* the URL string an option that pins f passes for it
PinValue(o, f) == IF o.kind = "url" THEN o.v ELSE o.ep[f]

\* the URL string of the last option that pins f (f is pinned by os)
LastPin(os, f) ==
  LET I == {i \in 1..Len(os) : f \in PinsOf(os[i])}
      i == CHOOSE m \in I : \A j \in I : j <= m
  IN  PinValue(os[i], f)

\* the region of the last WithRegion option, DefaultRegion without one
RegionArg(os) ==
  LET I == {i \in 1..Len(os) : os[i].kind = "region"}
  IN  IF I = {} THEN <<"c3j1">>
      ELSE os[CHOOSE m \in I : \A j \in I : j <= m].v

\* the region-pattern URLs, written out pair by pair
PatternURL(f, r) ==
  LET host(sub) == <<"https://", sub, ".">> \o r \o <<".", "conoha", ".", "io">>
  IN  CASE f = "identity"      -> host("identity") \o <<"/", "v", "3">>
        [] f = "compute"       -> host("compute") \o <<"/", "v", "2", ".", "1">>
        [] f = "block-storage" -> host("block-storage") \o <<"/", "v", "3">>
        [] f = "image"         -> host("image-service") \o <<"/", "v", "2">>
        [] f = "network"       -> host("networking") \o <<"/", "v", "2", ".", "0">>
        [] f = "load-balancer" -> host("lbaas") \o <<"/", "v", "2", ".", "0">>
        [] f = "object-store"  -> host("object-storage") \o <<"/", "v", "1">>
        [] f = "dns"           -> host("dns-service") \o <<"/", "v", "1">>

\* C2 (as claimed): NewClient(With<Service>URL(u)) holds exactly u in the
\* family's URL field, marks the family pinned and gives every other family
\* its region-pattern default.
C2_ExactPinnedURL ==
  (built /\ Len(opts) = 1 /\ opts[1].kind = "url") =>
    /\ URL[opts[1].f] = opts[1].v
    /\ opts[1].f \in explicitURLs
    /\ \A g \in Families \ {opts[1].f} : URL[g] = PatternURL(g, Region)

\* C3: with no pinned URL the eight URLs are the region pattern for the
\* region r given with WithRegion (c3j1 without it) and depend on r alone.
C3_RegionPatternFallback ==
  (built /\ \A i \in 1..Len(opts) : PinsOf(opts[i]) = {}) =>
    /\ Region = RegionArg(opts)
    /\ \A f \in Families : URL[f] = PatternURL(f, RegionArg(opts))

C3_Witness ==
  /\ built
  /\ \A i \in 1..Len(opts) : PinsOf(opts[i]) = {}
  /\ \E i \in 1..Len(opts) : opts[i].kind = "region" /\ opts[i].v = <<"c3j2">>
  /\ URL["compute"] =
       <<"https://", "compute", ".", "c3j2", ".", "conoha", ".", "io",
         "/", "v", "2", ".", "1">>

\* the region r when u is https://{service}.{r}.conoha.io with an optional
\* path, the empty string when u has no such form
PatternRegion(u) ==
  IF /\ Len(u) >= 8
     /\ u[1] = "https://" /\ u[3] = "." /\ u[5] = "."
     /\ u[6] = "conoha" /\ u[7] = "." /\ u[8] = "io"
     /\ u[2] \notin {".", "/", ":"} /\ u[4] \notin {".", "/", ":"}
     /\ (Len(u) = 8 \/ u[9] = "/")
  THEN <<u[4]>>
  ELSE EmptyStr

\* C4: with only the identity URL pinned, to a host of the form
\* service.region.conoha.io, and no WithRegion, the client's region is the
\* region of that host and the seven other families' fallback URLs use it.
C4_RegionInference ==
  (/\ built
   /\ \A i \in 1..Len(opts) : opts[i].kind # "region"
   /\ UNION {PinsOf(opts[i]) : i \in 1..Len(opts)} = {"identity"}
   /\ PatternRegion(LastPin(opts, "identity")) # EmptyStr) =>
    /\ Region = PatternRegion(LastPin(opts, "identity"))
    /\ \A g \in Families \ {"identity"} :
         URL[g] = PatternURL(g, PatternRegion(LastPin(opts, "identity")))

C4_Witness ==
  /\ built
  /\ opts = <<[kind |-> "url", f |-> "identity", v |-> URLRegionHost]>>
  /\ Region = <<"c3j2">>
  /\ URL["identity"] = URLRegionHost \o <<"/", "v", "3">>
  /\ URL["compute"] =
       <<"https://", "compute", ".", "c3j2", ".", "conoha", ".", "io",
         "/", "v", "2", ".", "1">>

(***************************************************************************)
(* Properties of the client lifecycle (checked under Spec).                *)
(***************************************************************************)
AuthOps == {"Authenticate", "AuthenticateByName"}

\* the families a catalog offers a public endpoint of the region for
\* (every public endpoint when the region is empty)
Offered(catalog, region) ==
  {TypeFamily(catalog[i].Type) : i \in
     {j \in 1..Len(catalog) :
        \E k \in 1..Len(catalog[j].Endpoints) :
          LET ep == catalog[j].Endpoints[k]
          IN  /\ ep.Interface = "public"
              /\ region = EmptyStr \/ ep.Region = region \/ ep.RegionID = region}}

\* the catalog of the response of the last call (empty without a JSON body)
LastCatalog ==
  IF last.op \in AuthOps /\ last.resp.Body.kind = "json"
  THEN last.resp.Body.Catalog
  ELSE << >>

\* C1: a family pinned at construction keeps the base URL it had when
\* NewClient returned, through every sequence of Authenticate calls.
C1_PinnedNeverChanged ==
  built => \A f \in explicitURLs : URL[f] = NewClient(opts).URL[f]

C1_Witness ==
  /\ calls = 2
  /\ last.op \in AuthOps
  /\ last.err = "none"
  /\ \E f \in explicitURLs :
       /\ f \in Offered(LastCatalog, Region)
       /\ URL[f] = NewClient(opts).URL[f]

\* the project ID a response body reports ("" when it reports none)
BodyProject(resp) == IF resp.Body.kind = "json" THEN resp.Body.Project ELSE EmptyStr

\* C6 (as claimed): after a successful call Token is the X-Subject-Token
\* header and TenantID is the passed project ID when non-empty, otherwise
\* the project ID the response body reports.
C6_TenantFromArgOrBody ==
  (last.op \in AuthOps /\ last.err = "none") =>
    /\ Token = last.resp.SubjectToken
    /\ TenantID = IF last.tenantID # EmptyStr THEN last.tenantID
                  ELSE BodyProject(last.resp)

\* C6 (amended): after a successful call Token is the X-Subject-Token header
\* and TenantID is the passed project ID when non-empty, otherwise the
\* body's project ID when that is non-empty, otherwise what it was before.
C6_TenantKeptWhenNoneGiven ==
  [][(calls' = calls + 1 /\ last'.op \in AuthOps /\ last'.err = "none") =>
       /\ Token' = last'.resp.SubjectToken
       /\ TenantID' = IF last'.tenantID # EmptyStr THEN last'.tenantID
                      ELSE IF BodyProject(last'.resp) # EmptyStr
                           THEN BodyProject(last'.resp)
                      ELSE TenantID]_vars

C6_Witness ==
  /\ calls = 2
  /\ last.op = "AuthenticateByName"
  /\ last.err = "none"
  /\ BodyProject(last.resp) = EmptyStr
  /\ TenantID = <<"t1">>
  /\ Token = last.resp.SubjectToken

\* C7: the token request never carries X-Auth-Token, also when the client
\* already holds a token.
C7_NoAuthTokenHeader ==
  last.op \in AuthOps => "X-Auth-Token" \notin DOMAIN last.req.Header

C7_Witness ==
  /\ last.op \in AuthOps
  /\ last.token # EmptyStr
  /\ "X-Auth-Token" \notin DOMAIN last.req.Header
  /\ "Accept" \in DOMAIN last.req.Header

\* C8: a call answered by a transport error, a status >= 400 or an
\* undecodable body returns an error, changes none of Token, TenantID and
\* the eight URLs, and does not take the write lock.
C8_FailureChangesNothing ==
  [][(/\ calls' = calls + 1
      /\ last'.op \in AuthOps
      /\ \/ last'.resp.transportErr
         \/ last'.resp.StatusCode >= 400
         \/ last'.resp.Body.kind = "invalid") =>
       /\ last'.err # "none"
       /\ ~last'.locked
       /\ Token' = Token
       /\ TenantID' = TenantID
       /\ URL' = URL]_vars

C8_Witness ==
  /\ calls = 2
  /\ last.op \in AuthOps
  /\ last.resp.StatusCode = 401
  /\ last.err = "api"
  /\ ~last.locked
  /\ Token = <<"tokA">>
  /\ last.resp.SubjectToken = <<"tokB">>
  /\ TenantID # BodyProject(last.resp)

(***************************************************************************)
(* Properties of catalog discovery (checked under SpecCat).                *)
(***************************************************************************)
\* C5: a catalog update changes the URL of a family only when the family is
\* not pinned and some entry of the family has a public endpoint whose
\* region or region id is the client's region (any public endpoint when the
\* region is empty); without such an endpoint the URL stays as it was.
C5_CatalogEligibility ==
  last.op = "updateEndpointsFromCatalog" =>
    \A f \in Families :
      URL[f] # last.pre[f] =>
        f \notin explicitURLs /\ f \in Offered(last.catalog, Region)

C5_Witness ==
  /\ last.op = "updateEndpointsFromCatalog"
  /\ Region = <<"c3j1">>
  /\ Len(last.catalog) = 2
  /\ last.catalog[1] = [Type |-> "compute", Endpoints |-> <<EpInternal, EpPublicThere>>]
  /\ last.catalog[2].Type = "dns"
  /\ "dns" \in Offered(last.catalog, Region)
  /\ URL["compute"] = last.pre["compute"]
  /\ URL["dns"] # last.pre["dns"]

(***************************************************************************)
(* Properties of concurrent use (checked under SpecConc).                  *)
(***************************************************************************)
\* the request of goroutine p uses the URL, tenant ID and token of one and
\* the same version of the client
OneVersion(p) ==
  \E i \in 1..Len(hist) :
    /\ loc[p].url = hist[i].URL[OpFamily(loc[p].op)]
    /\ loc[p].tenant = hist[i].TenantID
    /\ loc[p].token = hist[i].Token

\* C9 (as claimed): the request an operation sends while an Authenticate
\* runs beside it is built from the URL, tenant ID and token of one version
\* of the client, never from a mix of the old and the new ones.
C9_NoMixedRequest ==
  \A p \in Procs : pc[p] = "res_do" => OneVersion(p)

\* goroutine p is at a read of Token, TenantID or a URL field
AtRead(p) ==
  pc[p] \in {"auth_url", "res_path", "res_url", "up_token", "req_token", "ten_read"}

\* goroutine p is at a read, without the read lock, of a field that
\* goroutine q is at its write of
Races(p, q) ==
  /\ p # q
  /\ p \notin mu.readers
  /\ \/ pc[p] = "up_token" /\ WritingToken(q)
     \/ /\ pc[p] \in {"auth_url", "res_path", "res_url"}
        /\ WritingURL(q, OpFamily(loc[p].op))

\* C10 (as claimed): the request-issuing methods read the protected fields
\* under the read lock, so that no read of a field without the lock is
\* concurrent with authenticate's write of that field.
C10_NoUnlockedReadRacesWrite ==
  \A p \in Procs : \A q \in Procs : ~Races(p, q)

\* goroutine p leaves the locked section of its successful call while the
\* successful call of goroutine q, which took the write lock before p, has
\* not yet returned: p is the call that acquired the write lock last
SecondCommit(p, q) ==
  /\ p # q
  /\ pc[p] = "auth_unlock"
  /\ pc'[p] = "done"
  /\ pc[q] = "done"
  /\ loc[q].op \in AuthOps
  /\ loc[q].err = "none"

\* the URL the catalog cat gives family f: that of its last entry of the
\* family with a public endpoint of the region
LastEntryURL(f, cat) ==
  LET I == {i \in 1..Len(cat) :
              /\ TypeFamily(cat[i].Type) = f
              /\ publicURL(Region, cat[i].Endpoints) # EmptyStr}
      i == CHOOSE m \in I : \A j \in I : j <= m
  IN  CatalogURL(f, publicURL(Region, cat[i].Endpoints))

\* C11 (as claimed): when two Authenticate calls succeed concurrently, the
\* final Token, TenantID and URLs are all values produced by the call that
\* took the write lock last; none is left over from the earlier writer.
C11_LastWriterAllFields ==
  [][\A p \in Procs : \A q \in Procs : SecondCommit(p, q) =>
       /\ Token' = loc[p].resp.SubjectToken
       /\ TenantID' = IF loc[p].tenantID # EmptyStr THEN loc[p].tenantID
                      ELSE BodyProject(loc[p].resp)
       /\ \A f \in Assigned(Self, loc[q].result.Catalog) :
            /\ f \in Assigned(Self, loc[p].result.Catalog)
            /\ URL'[f] = LastEntryURL(f, loc[p].result.Catalog)]_vars

\* C11 (amended): the final Token is the last writer's; TenantID and each
\* URL are the last writer's where its call supplies one (a passed or
\* reported project ID, a catalog entry of the family) and otherwise keep
\* the value they had when it took the lock, the earlier writer's.
C11_LastWriterPerField ==
  [][\A p \in Procs : \A q \in Procs : SecondCommit(p, q) =>
       LET prev == hist[Len(hist)]
           cat  == loc[p].result.Catalog
       IN  /\ Token' = loc[p].resp.SubjectToken
           /\ TenantID' = IF loc[p].tenantID # EmptyStr THEN loc[p].tenantID
                          ELSE IF BodyProject(loc[p].resp) # EmptyStr
                               THEN BodyProject(loc[p].resp)
                          ELSE prev.TenantID
           /\ \A f \in Families :
                URL'[f] = IF f \in Assigned(Self, cat)
                          THEN LastEntryURL(f, cat)
                          ELSE prev.URL[f]]_vars

C11_Witness ==
  /\ pc = [p \in Procs |-> "done"]
  /\ Len(hist) = 3
  /\ loc["g1"].op = "Authenticate"
  /\ loc["g1"].resp.SubjectToken = <<"tokA">>
  /\ loc["g2"].op = "AuthenticateByName"
  /\ loc["g2"].resp.SubjectToken = <<"tokB">>
  /\ Token = <<"tokB">>
  /\ TenantID = <<"t1">>
  /\ URL["identity"] = <<"https://", "d", "/", "v", "3">>

(***************************************************************************)
(* Properties of the pipeline (checked under SpecPipe).                    *)
(***************************************************************************)
\* do or doRaw has handled the answer to the request of the last call
Answered == last.op \in PipeOps /\ last.phase \in {"return", "returned"}

\* an HTTP response came back (its status line is known)
GotResponse == Answered /\ ~last.resp.transportErr

\* an HTTP response came back and its body was read to the end
GotBody == GotResponse /\ ~last.resp.readErr

\* C12 (as claimed): in do and in doRaw a response with status 200-399
\* never yields an APIError and a response with status 400-599 always
\* yields an APIError whose StatusCode is the status code of the response.
C12_StatusDecidesAPIError ==
  GotResponse =>
    /\ (last.resp.StatusCode >= 200 /\ last.resp.StatusCode <= 399) =>
         (last.err # "api" /\ last.apiErr = Nil)
    /\ (last.resp.StatusCode >= 400 /\ last.resp.StatusCode <= 599) =>
         (last.err = "api" /\ last.apiErr.StatusCode = last.resp.StatusCode)

\* C12 (amended): a response with status 200-399 never yields an APIError;
\* a response with status 400-599 whose body was read to the end always
\* yields an APIError with the status code of the response; when reading
\* the body fails the error is "read response body", never an APIError,
\* whatever the status.
C12_StatusDecidesAPIErrorOnceRead ==
  GotResponse =>
    /\ (last.resp.StatusCode >= 200 /\ last.resp.StatusCode <= 399) =>
         (last.err # "api" /\ last.apiErr = Nil)
    /\ (GotBody /\ last.resp.StatusCode >= 400 /\ last.resp.StatusCode <= 599) =>
         (last.err = "api" /\ last.apiErr.StatusCode = last.resp.StatusCode)
    /\ last.resp.readErr => (last.err = "read" /\ last.apiErr = Nil)

C12_Witness ==
  /\ last.op = "doRaw"
  /\ last.phase = "returned"
  /\ ~last.resp.readErr
  /\ last.resp.StatusCode = 599
  /\ last.err = "api"
  /\ last.apiErr.StatusCode = 599

\* v is a JSON object with a non-empty string under "message"
HasMessage(v) ==
  IF v.t # "obj" THEN FALSE
  ELSE IF "message" \notin DOMAIN v.m THEN FALSE
  ELSE IF v.m["message"].t # "str" THEN FALSE
  ELSE v.m["message"].s # EmptyStr

\* the number under "code" of the JSON object v, 0 without one
CodeOf(v) ==
  IF "code" \notin DOMAIN v.m THEN 0
  ELSE IF v.m["code"].t # "num" THEN 0
  ELSE v.m["code"].n

\* the JSON object v has no "code" or an integer (or null) under it
CodeFits(v) ==
  IF "code" \notin DOMAIN v.m THEN TRUE ELSE v.m["code"].t \in {"num", "null"}

\* the top-level keys of a body (none when it is no JSON object)
TopKeys(body) == IF Doc(body).t = "obj" THEN DOMAIN Doc(body).m ELSE {}

\* C13 (as claimed): the error record holds the raw body; Message and Code
\* are populated exactly when the body is a JSON object with a single
\* top-level key whose value is an object with a non-empty message, and
\* stay empty/zero for every other body.
C13_EnvelopeSingleKey ==
  (Answered /\ last.err = "api") =>
    LET K == TopKeys(last.resp.Body)
        m == Doc(last.resp.Body).m
    IN  /\ last.apiErr.Body = last.resp.Body
        /\ IF Cardinality(K) = 1 /\ \A k \in K : HasMessage(m[k])
           THEN \A k \in K : /\ last.apiErr.Message = m[k].m["message"].s
                              /\ last.apiErr.Code = CodeOf(m[k])
           ELSE last.apiErr.Message = EmptyStr /\ last.apiErr.Code = 0

\* C13 (amended): the error record holds the raw body; Message and Code are
\* populated exactly when the body is a JSON object with some top-level
\* key, among any number of keys, whose value is an object with a non-empty
\* string message and no code that is not an integer; they are then those
\* of one such key, and stay empty/zero for every other body.
C13_EnvelopeAnyKey ==
  (Answered /\ last.err = "api") =>
    LET m == Doc(last.resp.Body).m
        K == {k \in TopKeys(last.resp.Body) : HasMessage(m[k]) /\ CodeFits(m[k])}
    IN  /\ last.apiErr.Body = last.resp.Body
        /\ IF K # {}
           THEN \E k \in K : /\ last.apiErr.Message = m[k].m["message"].s
                              /\ last.apiErr.Code = CodeOf(m[k])
           ELSE last.apiErr.Message = EmptyStr /\ last.apiErr.Code = 0

C13_Witness ==
  /\ Answered
  /\ last.err = "api"
  /\ TopKeys(last.resp.Body) = {"request_id", "conflict"}
  /\ last.apiErr.Body = last.resp.Body
  /\ last.apiErr.Message = <<"locked">>
  /\ last.apiErr.Code = 409

\* C14: a response with status below 400 and a body without bytes, handled
\* by do with a non-nil decode target, produces no error and leaves the
\* target as it was.
C14_EmptyBodyTolerated ==
  (/\ GotBody
   /\ last.op # "doRaw"
   /\ last.target # Nil
   /\ last.resp.StatusCode < 400
   /\ last.resp.Body.kind = "empty") =>
    /\ last.err = "none"
    /\ last.out = last.target

C14_Witness ==
  /\ GotBody
  /\ last.op = "ListVolumes"
  /\ last.phase = "returned"
  /\ last.target = ZeroResult
  /\ last.resp.StatusCode = 204
  /\ last.resp.Body.kind = "empty"
  /\ last.err = "none"
  /\ last.ret = ZeroResult

\* C15: in do, a response with status below 400 whose body has bytes that
\* json.Unmarshal rejects for the non-nil target yields the "unmarshal
\* response" error, which is no APIError; no response with status below 400
\* yields an APIError; with a nil target the body is not decoded and no
\* error is returned.
C15_DecodeFailureDistinct ==
  (GotResponse /\ last.resp.StatusCode < 400) =>
    /\ last.err # "api"
    /\ last.apiErr = Nil
    /\ (GotBody /\ last.op # "doRaw") =>
         IF last.target = Nil
         THEN last.err = "none" /\ last.out = Nil
         ELSE last.resp.Body.kind = "invalid" => last.err = "unmarshal"

C15_Witness ==
  /\ GotBody
  /\ last.op = "ListVolumes"
  /\ last.resp.StatusCode = 200
  /\ last.resp.Body = [kind |-> "invalid"]
  /\ last.err = "unmarshal"
  /\ last.apiErr = Nil

\* C16: an invocation of a library method calls c.HTTPClient.Do at most
\* once; when the request fails (transport error, status >= 400, decode
\* failure) the method returns that failure after the one request, with a
\* nil result.
C16_NoRetry ==
  last.op \in PipeOps =>
    /\ last.sent <= 1
    /\ last.phase = "returned" =>
         /\ last.sent = 1
         /\ (\/ last.resp.transportErr
             \/ last.resp.StatusCode >= 400
             \/ last.op = "ListVolumes" /\ last.resp.Body.kind = "invalid") =>
              /\ last.err # "none"
              /\ last.op # "doRaw" => last.ret = Nil

C16_Witness ==
  /\ last.op = "ListVolumes"
  /\ last.phase = "returned"
  /\ last.resp.transportErr
  /\ last.sent = 1
  /\ last.err = "transport"
  /\ last.ret = Nil
  /\ calls = 2

(***************************************************************************)
(* Properties of the signed-URL generator (checked under SpecTemp).        *)
(***************************************************************************)
ValidationErrors ==
  {"method is required", "container is required", "object name is required",
   "temp url key is required", "expires must be greater than 0"}

Escaped(p) == [i \in 1..Len(p) |-> IF p[i] = " " THEN "%20" ELSE p[i]]

\* the path of a URL: from the first "/" after the scheme on
PathOf(u) ==
  LET I == {i \in 2..Len(u) : u[i] = "/"}
  IN  SubSeq(u, CHOOSE i \in I : \A j \in I : i <= j, Len(u))

\* {ObjectStorageURL}/AUTH_{tenant}/{container}/{object}
ResolvedURL(a) ==
  URL["object-store"] \o <<"/", "AUTH_">> \o TenantID \o <<"/">>
    \o Escaped(a.container) \o <<"/">> \o Escaped(a.objectName)

\* the URL signed for the arguments a with the method string m
SignedURL(a, m) ==
  ResolvedURL(a)
    \o <<"?", "temp_url_expires", "=">> \o FormatInt(a.expires)
    \o <<"&", "temp_url_sig", "=",
         HmacSHA1Hex(a.key, m \o <<"\n">> \o FormatInt(a.expires) \o <<"\n">>
                              \o PathOf(ResolvedURL(a)))>>

\* C18 (as claimed): for valid inputs the URL returned is the object's
\* resolved URL with temp_url_expires the decimal expiry and temp_url_sig
\* the hex HMAC-SHA1, under the key, of the upper-cased method, the decimal
\* expiry and the escaped path joined by newlines.
C18_SignedURL ==
  (last.op = "GenerateTempURL" /\ last.err = "none") =>
    last.url = SignedURL(last.args, ToUpper(last.args.method))

\* C18 (amended): the same, with the method under the signature trimmed of
\* surrounding white space and then upper-cased.
C18_SignedURLTrimmedMethod ==
  (last.op = "GenerateTempURL" /\ last.err = "none") =>
    last.url = SignedURL(last.args, ToUpper(TrimSpace(last.args.method)))

C18_Witness ==
  /\ last.op = "GenerateTempURL"
  /\ last.err = "none"
  /\ last.args.method = <<" ", "get", " ">>
  /\ TenantID = <<"t1">>
  /\ last.url =
       <<"https://", "d", "/", "v", "1", "/", "AUTH_", "t1", "/", "c", "/",
         "a", "/", "b", "%20", "c.txt",
         "?", "temp_url_expires", "=",
         "1", "7", "0", "0", "0", "0", "0", "0", "0", "0",
         "&", "temp_url_sig", "=",
         HmacSHA1Hex(<<"key">>,
           <<"GET", "\n", "1", "7", "0", "0", "0", "0", "0", "0", "0", "0", "\n",
             "/", "v", "1", "/", "AUTH_", "t1", "/", "c", "/",
             "a", "/", "b", "%20", "c.txt">>)>>

\* C19 (as claimed): two calls of GenerateTempURL with the same method,
\* container, object, key and expiry return the same URL, whatever ran on
\* the client between them.
C19_SameArgsSameURL ==
  \A i \in 1..Len(hist) : \A j \in 1..Len(hist) :
    ("args" \in DOMAIN hist[i] /\ "args" \in DOMAIN hist[j]) =>
      (hist[i].args = hist[j].args => hist[i].url = hist[j].url)

\* C19 (amended): two calls of GenerateTempURL with the same arguments
\* return the same URL when the client's ObjectStorageURL and TenantID are
\* the same at both calls; nothing else of the client enters the result.
C19_SameArgsSameClientSameURL ==
  \A i \in 1..Len(hist) : \A j \in 1..Len(hist) :
    ("args" \in DOMAIN hist[i] /\ "args" \in DOMAIN hist[j]) =>
      ((/\ hist[i].args = hist[j].args
        /\ hist[i].ObjectStorageURL = hist[j].ObjectStorageURL
        /\ hist[i].TenantID = hist[j].TenantID) =>
         hist[i].url = hist[j].url)

C19_Witness ==
  /\ Len(hist) = 2
  /\ "args" \in DOMAIN hist[1]
  /\ hist[1].args = hist[2].args
  /\ hist[1].ObjectStorageURL = hist[2].ObjectStorageURL
  /\ hist[1].TenantID = hist[2].TenantID
  /\ hist[1].Token # hist[2].Token
  /\ hist[1].url = hist[2].url

(***************************************************************************)
(* C20: for every URL u and version path v, ensureVersionPath(u, v) is u   *)
(* when u already contains v, and handing the result to ensureVersionPath  *)
(* once more with the same v returns it unchanged.                         *)
(***************************************************************************)
C20_AppendIdempotent ==
  last.op = "ensureVersionPath" =>
    /\ (last.applied = 1 /\ Contains(last.rawURL, last.versionPath))
          => last.ret = last.rawURL
    /\ last.applied = 2 => last.ret = last.arg

\* the second application, on the URL the first one appended /v1 to: its
\* argument contains /v1 and comes back unchanged
C20_Witness ==
  /\ last.op = "ensureVersionPath"
  /\ last.applied = 2
  /\ last.versionPath = <<"/", "v", "1">>
  /\ last.rawURL = <<"https://", "h", "/", "v", "2">>
  /\ last.arg = <<"https://", "h", "/", "v", "2", "/", "v", "1">>
  /\ Contains(last.arg, last.versionPath)
  /\ last.ret = last.arg

(***************************************************************************)
(* More properties of catalog discovery (checked under SpecCat).           *)
(***************************************************************************)
\* the endpoint ep is public and of the client's region (of any region when
\* the client's region is empty)
Eligible(ep) ==
  /\ ep.Interface = "public"
  /\ Region = EmptyStr \/ ep.Region = Region \/ ep.RegionID = Region

\* the URL of the first eligible endpoint of the entry svc, trailing
\* slashes removed ("" without an eligible endpoint)
EntryURL(svc) ==
  LET I == {i \in 1..Len(svc.Endpoints) : Eligible(svc.Endpoints[i])}
  IN  IF I = {} THEN EmptyStr
      ELSE TrimRight(svc.Endpoints[CHOOSE i \in I : \A j \in I : i <= j].URL, "/")

\* the entries of the catalog that assign the URL of family f
FamilyEntries(cat, f) ==
  {i \in 1..Len(cat) : TypeFamily(cat[i].Type) = f /\ EntryURL(cat[i]) # EmptyStr}

\* C21 (as claimed): in one catalog update an unpinned family is assigned
\* from the first entry of the family with an eligible public endpoint; a
\* later entry of the family never replaces that URL.
C21_FirstEntryWins ==
  last.op = "updateEndpointsFromCatalog" =>
    \A f \in Families \ explicitURLs :
      LET I == FamilyEntries(last.catalog, f)
      IN  I # {} =>
            URL[f] = CatalogURL(f, EntryURL(last.catalog[
                       CHOOSE i \in I : \A j \in I : i <= j]))

\* C21 (amended): within a catalog entry the first eligible public endpoint
\* is taken; every entry of a family with such an endpoint assigns the
\* family's URL, so after the update the URL is that of the last such entry.
C21_LastEntryWins ==
  last.op = "updateEndpointsFromCatalog" =>
    \A f \in Families \ explicitURLs :
      LET I == FamilyEntries(last.catalog, f)
      IN  I # {} =>
            URL[f] = CatalogURL(f, EntryURL(last.catalog[
                       CHOOSE i \in I : \A j \in I : j <= i]))

\* a block-storage entry followed by a volumev3 entry with another URL
C21_Witness ==
  /\ last.op = "updateEndpointsFromCatalog"
  /\ Region = <<"c3j1">>
  /\ "block-storage" \notin explicitURLs
  /\ last.catalog =
       <<[Type |-> "block-storage", Endpoints |-> <<EpPublicHere>>],
         [Type |-> "volumev3",
          Endpoints |-> <<EpPublicThere, EpByRegionID, EpPublicHere>>]>>
  /\ URL["block-storage"] = <<"https://", "d", "/", "v", "3">>

\* u when it has v in it, u followed by v otherwise
Ensured(u, v) ==
  IF \E i \in 1..Len(u) : MatchAt(u, v, i) THEN u ELSE u \o v

\* u up to the first occurrence of p and the first keep characters of it
\* (u itself when p does not occur)
CutAt(u, p, keep) ==
  LET I == {i \in 1..Len(u) : MatchAt(u, p, i)}
  IN  IF I = {} THEN u
      ELSE SubSeq(u, 1, (CHOOSE i \in I : \A j \in I : i <= j) - 1 + keep)

\* the URL to be stored for family f from the endpoint URL u (trailing
\* slashes already removed)
Normalized(f, u) ==
  CASE f = "block-storage" ->
         CutAt(Ensured(u, VersionPath(f)), <<"/", "v", "3", "/">>, 3)
    [] f = "object-store" ->
         Ensured(CutAt(u, <<"/", "AUTH_">>, 0), VersionPath(f))
    [] OTHER -> Ensured(u, VersionPath(f))

\* the entry of the catalog that assigns family f last
AssigningEntry(cat, f) ==
  LET I == FamilyEntries(cat, f)
  IN  cat[CHOOSE i \in I : \A j \in I : j <= i]

\* C22: when a catalog update assigns an unpinned family, the stored URL is
\* the endpoint URL without trailing slashes and with the family's version
\* path ensured; for block-storage it is cut after the /v3 that a further
\* segment follows, for object-store the /AUTH_ segment and what follows it
\* are removed, so the stored block-storage URL has no segment after /v3
\* and the stored object-store URL has no /AUTH_ segment.
C22_CatalogURLNormalized ==
  last.op = "updateEndpointsFromCatalog" =>
    \A f \in Families \ explicitURLs :
      FamilyEntries(last.catalog, f) # {} =>
        /\ URL[f] = Normalized(f, EntryURL(AssigningEntry(last.catalog, f)))
        /\ \E i \in 1..Len(URL[f]) : MatchAt(URL[f], VersionPath(f), i)
        /\ f = "block-storage" => ~Contains(URL[f], <<"/", "v", "3", "/">>)
        /\ f = "object-store" => ~Contains(URL[f], <<"/", "AUTH_">>)

\* a block-storage endpoint with a tenant segment and an object-store
\* endpoint with an AUTH_ segment, both cut back to the version path
C22_Witness ==
  /\ last.op = "updateEndpointsFromCatalog"
  /\ Region = EmptyStr
  /\ last.catalog =
       <<[Type |-> "block-storage", Endpoints |-> <<EpPublicHere>>],
         [Type |-> "object-store", Endpoints |-> <<EpInternal, EpPublicThere>>]>>
  /\ EpPublicHere.URL = <<"https://", "a", "/", "v", "3", "/", "t1", "/">>
  /\ URL["block-storage"] = <<"https://", "a", "/", "v", "3">>
  /\ EpPublicThere.URL = <<"https://", "b", "/", "v", "1", "/", "AUTH_", "t1">>
  /\ URL["object-store"] = <<"https://", "b", "/", "v", "1">>

(***************************************************************************)
(* More properties of concurrent use (checked under SpecConc).             *)
(***************************************************************************)
\* goroutine p is in the round trip of its request
InFlight(p) == pc[p] \in {"auth_do", "res_do"}

\* C23: a goroutine whose HTTP request is in flight holds neither the read
\* lock nor the write lock of the client.
C23_NoLockAcrossNetwork ==
  \A p \in Procs : InFlight(p) => mu.writer # p /\ p \notin mu.readers

\* the request of g1 is in flight while g2 is in the locked section of its
\* Authenticate
C23_Witness ==
  /\ pc["g1"] = "res_do"
  /\ loc["g1"].op = "ListVolumes"
  /\ mu.writer = "g2"
  /\ pc["g2"] = "auth_w_token"

(***************************************************************************)
(* Properties of request construction (checked under SpecReq).             *)
(***************************************************************************)
Built == last.op = "newRequest" /\ last.err = "none"

\* C24: a request built by newRequest always has Accept: application/json;
\* it has Content-Type: application/json exactly when a body value was
\* given; it has X-Auth-Token exactly when the client's token is non-empty,
\* and then with the token the client holds when the request is built.
C24_RequestHeaders ==
  Built =>
    LET h == last.req.Header
    IN  /\ "Accept" \in DOMAIN h
        /\ h["Accept"] = <<"application/json">>
        /\ "Content-Type" \in DOMAIN h <=> last.body # "nil"
        /\ "Content-Type" \in DOMAIN h =>
             h["Content-Type"] = <<"application/json">>
        /\ "X-Auth-Token" \in DOMAIN h <=> Token # EmptyStr
        /\ "X-Auth-Token" \in DOMAIN h => h["X-Auth-Token"] = Token

\* a GET without body built after two Authenticate calls, the client
\* holding tokB: it carries tokB and no Content-Type
C24_Witness ==
  /\ Built
  /\ calls = 2
  /\ Token = <<"tokB">>
  /\ last.body = "nil"
  /\ last.req.Method = "GET"
  /\ DOMAIN last.req.Header = {"Accept", "X-Auth-Token"}
  /\ last.req.Header["X-Auth-Token"] = <<"tokB">>

(***************************************************************************)
(* Properties of newAPIError (checked under SpecErr).                      *)
(***************************************************************************)
\* C25: for every status and body the Message and Code of the error record
\* are uniquely determined: two calls of newAPIError with the same status
\* and body return the same Message and Code, also for a body with two
\* top-level keys that both wrap a non-empty message.
C25_EnvelopeDeterministic ==
  (last.op = "newAPIError" /\ last.n = 2) =>
    /\ last.ret.Message = last.first.Message
    /\ last.ret.Code = last.first.Code

(***************************************************************************)
(* More properties of the client lifecycle (checked under Spec).           *)
(***************************************************************************)
\* C26: after NewClient has returned, the Region of the client, the set of
\* pinned families and the explicit-region mark stay what NewClient made
\* them, through every sequence of Authenticate / AuthenticateByName calls
\* and the catalog updates they run.
C26_RegionAndPinsWriteOnce ==
  built =>
    /\ Region = NewClient(opts).Region
    /\ explicitURLs = NewClient(opts).explicitURLs
    /\ explicitRegion = NewClient(opts).explicitRegion

\* two calls, the last one successful with a catalog that moved the compute
\* URL of a client that has dns pinned
C26_Witness ==
  /\ calls = 2
  /\ last.op \in AuthOps
  /\ last.err = "none"
  /\ Len(LastCatalog) > 0
  /\ URL["compute"] # NewClient(opts).URL["compute"]
  /\ explicitURLs = {"dns"}
  /\ Region = <<"c3j1">>

\* the service types with a case in the switch
KnownTypes ==
  {"identity", "compute", "block-storage", "volumev3", "image", "network",
   "load-balancer", "object-store", "dns"}

\* the family of a known service type
FamilyOf(t) == IF t = "volumev3" THEN "block-storage" ELSE t

\* the catalog has an entry of family f with an eligible endpoint
HasEligibleEntry(cat, f) ==
  \E i \in 1..Len(cat) :
    /\ cat[i].Type \in KnownTypes
    /\ FamilyOf(cat[i].Type) = f
    /\ \E k \in 1..Len(cat[i].Endpoints) : Eligible(cat[i].Endpoints[k])

\* C27: a catalog update changes the URL field of a family only when the
\* catalog has an entry of that family with an eligible endpoint; with an
\* empty catalog, or with entries of unknown service types only, the eight
\* URLs stay as they were; Token and TenantID are not changed by it.
C27_CatalogUpdateFrame ==
  [][(last'.op = "updateEndpointsFromCatalog" /\ last.op = "none") =>
       /\ Token' = Token
       /\ TenantID' = TenantID
       /\ \A f \in Families :
            URL'[f] # URL[f] => HasEligibleEntry(last'.catalog, f)
       /\ last'.catalog = << >> => URL' = URL
       /\ (\A i \in 1..Len(last'.catalog) :
             last'.catalog[i].Type \notin KnownTypes) => URL' = URL]_vars

\* an entry of the unknown type account next to a dns entry: the dns URL
\* is taken from the catalog, the other seven are as before
C27_Witness ==
  /\ last.op = "updateEndpointsFromCatalog"
  /\ last.catalog =
       <<[Type |-> "account", Endpoints |-> <<EpPublicHere>>],
         [Type |-> "dns", Endpoints |-> <<EpPublicHere>>]>>
  /\ Region = <<"c3j1">>
  /\ URL["dns"] # last.pre["dns"]
  /\ \A f \in Families \ {"dns"} : URL[f] = last.pre[f]
  /\ Token = EmptyStr
  /\ TenantID = EmptyStr

(***************************************************************************)
(* Properties of endpoint resolution over the lifecycle (SpecRes).         *)
(***************************************************************************)
\* C28: after NewClient has returned, and after every sequence of
\* Authenticate calls with whatever catalog, each of the eight endpoint URL
\* fields is a non-empty string.
C28_EndpointsResolved ==
  built => \A f \in Families : URL[f] # EmptyStr

\* a client with an empty pinned identity URL, after an object-store entry
\* whose endpoint URL is the tenant segment alone
C28_Witness ==
  /\ opts = <<[kind |-> "url", f |-> "identity", v |-> EmptyStr]>>
  /\ calls = 2
  /\ last.op \in AuthOps
  /\ last.err = "none"
  /\ LastCatalog = <<[Type |-> "object-store", Endpoints |-> <<EpAuthOnly>>]>>
  /\ URL["identity"] = <<"/", "v", "3">>
  /\ URL["object-store"] = <<"/", "v", "1">>

\* the token-issuance path
TokensPath == <<"/", "auth", "/", "tokens">>

\* the call before succeeded with a catalog that has an identity entry with
\* an eligible endpoint
IdentityDiscovered ==
  /\ last.op \in AuthOps
  /\ last.err = "none"
  /\ FamilyEntries(LastCatalog, "identity") # {}

Pinned(os) == UNION {PinsOf(os[i]) : i \in 1..Len(os)}

\* C30: when WithRegion(r) is among the options (the last one when it is
\* given more than once), the client's Region after NewClient is r and the
\* URL of every family that is not pinned is the region pattern for r, in
\* whatever order the options are passed and whatever region the host of a
\* pinned identity URL names.
C30_ExplicitRegionWins ==
  (built /\ \E i \in 1..Len(opts) : opts[i].kind = "region") =>
    /\ Region = RegionArg(opts)
    /\ \A f \in Families \ Pinned(opts) : URL[f] = PatternURL(f, RegionArg(opts))

\* WithRegion(c3j3) passed together with WithIdentityURL of a host that
\* names the region c3j2
C30_Witness ==
  /\ built
  /\ opts = <<[kind |-> "region", v |-> <<"c3j3">>],
              [kind |-> "url", f |-> "identity", v |-> URLRegionHost]>>
  /\ URL["identity"] = URLRegionHost \o <<"/", "v", "3">>
  /\ PatternRegion(URLRegionHost) = <<"c3j2">>
  /\ Region = <<"c3j3">>
  /\ URL["compute"] =
       <<"https://", "compute", ".", "c3j3", ".", "conoha", ".", "io",
         "/", "v", "2", ".", "1">>

=============================================================================
